---- MODULE Spec2Model ----
(***************************************************************************)
(* Model of localstack-mcp-server's process runner (core/command-runner.ts),*)
(* of the log retriever built on it (lib/logs: retrieveLogs, parseLogLine,  *)
(* groupLogsByError, analyzeApiCalls) and of the IAM policy logic           *)
(* (lib/iam: enrichWithResourceData, deduplicatePermissions,                *)
(* generateIamPolicy, and the analyze-policies pipeline that calls them),   *)
(* of the Docker client (lib/docker: findLocalStackContainer,               *)
(* executeInContainer), of the localstack-aws-client tool with its command  *)
(* sanitizer (lib/aws), and of the deployer's Terraform and CDK command     *)
(* sequences.                                                               *)
(*                                                                          *)
(* In the runner and in retrieveLogs strings are sequences of one-character *)
(* strings, so that trim, split, toLowerCase and includes are computed and  *)
(* not assumed; the parser, the grouping and the IAM logic work on strings  *)
(* with Len, SubSeq and \o, and each regular expression is an operator      *)
(* giving its match at an index.  Error objects are records [kind, stream,  *)
(* num, code, text]; the message of a thrown exception is a sequence of     *)
(* words.  undefined is <<>> and a defined value v is <<v>>; a Map is the   *)
(* sequence of its entries in insertion order.  Time is abstracted: a timer *)
(* that is armed may fire at any later step.                                *)
(***************************************************************************)
EXTENDS Integers, Sequences, FiniteSets, TLC

VARIABLES
    \* ---- runCommand: arguments of the call
    timeout,        \* options.timeout
    maxBuffer,      \* options.maxBuffer
    killSignal,     \* spawnOptions.killSignal ?? "SIGTERM"
    onData,         \* whether options.onData was given
    \* ---- runCommand: the promise
    promise,        \* "none" (not called) | "pending" | "resolved" | "rejected"
    resolveCount,   \* number of calls of resolve()
    result,         \* the CommandResult passed to resolve()
    \* ---- runCommand: the closure's variables
    stdout, stderr, outBytes, errBytes, timedOut, bufferExceeded, error,
    timer,          \* "none" | "armed" | "fired" | "cleared"
    grace,          \* number of pending 2000 ms grace timers
    onDataCalls,    \* number of calls of onData
    \* ---- the child process (node's ChildProcess and the OS process)
    child,          \* "none" | "spawnfail" | "failed" | "alive" | "exited" | "signaled"
    childCode,      \* the code 'close' will carry
    killed,         \* child.killed
    killLog,        \* the calls of child.kill: <<[sig, outcome]>>
    ignoresTerm,    \* the program ignores every signal it can ignore
    signalable,     \* the OS lets this process signal the child (else EPERM)
    chunksLeft,     \* data chunks the child may still write
    errAfterTimer,  \* history: an 'error' event was emitted after the timer fired
    graceDone,      \* history: a grace timer has fired
    \* ---- retrieveLogs
    filter,         \* the filter argument: [given, text]
    cmd,            \* how the awaited runCommand promise settled
    logsPc,         \* "off" | "awaiting" | "done"
    logsResult,     \* the LogRetrievalResult returned
    \* ---- parseLogLine
    rawLine,        \* the line argument, a string
    entry,          \* the LogEntry returned
    parsePc,        \* "off" | "called" | "done"
    \* ---- groupLogsByError and analyzeApiCalls
    logs,           \* the logs argument, a list of LogEntry
    groups,         \* the Map returned by groupLogsByError, in insertion order
    groupPc,        \* "off" | "called" | "done"
    stats,          \* the object returned by analyzeApiCalls
    statsPc,        \* "off" | "called" | "done"
    \* ---- iam-policy.logic
    denials,          \* the denials argument of enrichWithResourceData
    allLogs,          \* its allLogs argument
    enriched,         \* the list enrichWithResourceData returns
    permissions,      \* the Map deduplicatePermissions returns, in insertion order
    permissionsAgain, \* the Map of a second call on the same list
    policy,           \* the policy generateIamPolicy returns
    principalPolicy,  \* the policy the per-principal generateIamPolicy returns
    iamPc,            \* "off", or the function to call next, or "done"
    \* ---- DockerApiClient.findLocalStackContainer
    running,          \* what docker.listContainers resolves with
    findPc,           \* "off" | "listing" | "done"
    found,            \* how the call settled
    \* ---- DockerApiClient.executeInContainer
    stdin,            \* the stdin argument
    execPc,           \* "off" | "creating" | "starting" | "streaming" | "inspecting"
                      \* | "resolved" | "rejected"
    stdinWritten,     \* what was written to the stream, if anything
    streamEvents,     \* the 'end' and 'error' events the stream has emitted, in order
    stdoutChunks,     \* the chunks pushed by the 'data' handler of stdoutStream
    stderrChunks,     \* the chunks pushed by the 'data' handler of stderrStream
    inspectCalls,     \* for each call of exec.inspect, the events emitted before it
    inspect,          \* what exec.inspect resolved with
    execResult,       \* how the call settled
    \* ---- localstack-aws-client
    awsCommand,       \* the command argument
    awsPc,            \* "off" | "preflight" | "find" | "exec" | "returned"
    awsSteps,         \* what the tool has done so far, in order
    awsCmd,           \* the Cmd given to executeInContainer, if it was called
    awsResponse,      \* the tool's response
    \* ---- localstack-deployer: executeTerraformCommands, executeCdkCommands
    projectType,      \* "terraform" | "cdk"
    deployAction,     \* "deploy" | "destroy"
    deployPc,         \* "off" | "called" | the command awaited | "returned"
    deployCommands,   \* the commands started with runCommand, in order
    deployResults,    \* the results runCommand returned, in order
    deployEvents      \* the events list

rcInputs == <<timeout, maxBuffer, killSignal, onData, ignoresTerm, signalable>>
rcVars == <<rcInputs, promise, resolveCount, result,
            stdout, stderr, outBytes, errBytes, timedOut, bufferExceeded, error,
            timer, grace, onDataCalls, child, childCode, killed, killLog,
            chunksLeft, errAfterTimer, graceDone>>
logVars == <<filter, cmd, logsPc, logsResult>>
parseVars == <<rawLine, entry, parsePc>>
analysisVars == <<logs, groups, groupPc, stats, statsPc>>
iamVars == <<denials, allLogs, enriched, permissions, permissionsAgain, policy,
             principalPolicy, iamPc>>
libVars == <<parseVars, analysisVars, iamVars>>
findVars == <<running, findPc, found>>
execVars == <<stdin, execPc, stdinWritten, streamEvents, stdoutChunks, stderrChunks,
              inspectCalls, inspect, execResult>>
awsVars == <<awsCommand, awsPc, awsSteps, awsCmd, awsResponse>>
deployVars == <<projectType, deployAction, deployPc, deployCommands, deployResults,
                deployEvents>>
appVars == <<awsVars, deployVars>>
toolVars == <<findVars, execVars, appVars>>
vars == <<rcVars, logVars, libVars, toolVars>>

\* ------------------------------------------------------------------ bounds
MaxBuffer == 2        \* maxBuffer is drawn from 1..MaxBuffer
MaxChunks == 2        \* chunks a child writes in one run
MaxChunkLen == 2      \* bytes in one chunk
MaxLogLen == 4        \* characters of stdout the log command returns
MaxFilterLen == 2     \* characters of the filter argument
MaxLogs == 3          \* entries in the list given to groupLogsByError and analyzeApiCalls
MaxDenials == 2       \* entries in the denials argument
MaxAllLogs == 2       \* entries in the allLogs argument
MaxPipelineLogs == 3  \* log entries the analyze-policies handler works on
MaxContainers == 2    \* containers docker.listContainers returns
MaxExecChunks == 2    \* chunks the exec stream delivers

\* ------------------------------------------------------- program constants
DEFAULT_COMMAND_TIMEOUT == 300000
LOGS_TIMEOUT == 30000
ENOENT == -2

\* ------------------------------------------------------------------ values
Code(n) == [null |-> FALSE, n |-> n]
NullCode == [null |-> TRUE, n |-> 0]

Err(kind, stream, num, code, text) ==
    [kind |-> kind, stream |-> stream, num |-> num, code |-> code, text |-> text]
NoError == Err("none", "", 0, NullCode, <<>>)
TimeoutError(ms) == Err("timeout", "", ms, NullCode, <<>>)
BufferError(stream, limit) == Err("maxBuffer", stream, limit, NullCode, <<>>)
ExitError(code, text) == Err("exit", "", 0, code, text)
SpawnError == Err("spawn", "", ENOENT, NullCode, <<>>)
KillError == Err("kill", "", 0, NullCode, <<>>)

NoResult == [stdout |-> <<>>, stderr |-> <<>>, error |-> NoError, exitCode |-> NullCode,
             set |-> FALSE]

IsSpace(c) == c \in {" ", "\n"}

RECURSIVE TrimStart(_)
TrimStart(s) == IF s # <<>> /\ IsSpace(Head(s)) THEN TrimStart(Tail(s)) ELSE s

RECURSIVE TrimEnd(_)
TrimEnd(s) ==
    IF s # <<>> /\ IsSpace(s[Len(s)]) THEN TrimEnd(SubSeq(s, 1, Len(s) - 1)) ELSE s

Trim(s) == TrimEnd(TrimStart(s))

SeqsUpTo(S, n) == UNION {[1..k -> S] : k \in 1..n}
OutChunks == SeqsUpTo({"x"}, MaxChunkLen)
ErrChunks == SeqsUpTo({"e", " "}, MaxChunkLen)

\* ------------------------------------------------------------- runCommand
RcInputs ==
    /\ timeout \in {DEFAULT_COMMAND_TIMEOUT, LOGS_TIMEOUT}
    /\ maxBuffer \in 1..MaxBuffer
    /\ killSignal \in {"SIGTERM", "SIGKILL"}
    /\ onData \in BOOLEAN
    /\ ignoresTerm \in BOOLEAN
    /\ signalable \in BOOLEAN

\* The closure's variables as lines 32-38 initialise them; nothing spawned yet.
RcFresh ==
    /\ promise = "none" /\ resolveCount = 0 /\ result = NoResult
    /\ stdout = <<>> /\ stderr = <<>> /\ outBytes = 0 /\ errBytes = 0
    /\ timedOut = FALSE /\ bufferExceeded = FALSE /\ error = NoError
    /\ timer = "none" /\ grace = 0 /\ onDataCalls = 0
    /\ child = "none" /\ childCode = NullCode /\ killed = FALSE /\ killLog = <<>>
    /\ chunksLeft = MaxChunks /\ errAfterTimer = FALSE /\ graceDone = FALSE

RcIdle ==
    /\ timeout = DEFAULT_COMMAND_TIMEOUT /\ maxBuffer = 1 /\ killSignal = "SIGTERM"
    /\ onData = FALSE /\ ignoresTerm = FALSE /\ signalable = TRUE
    /\ RcFresh

\* ------------------------------------------------- retrieveLogs: values
NoFilter == [given |-> FALSE, text |-> <<>>]
Undefined == <<>>
Defined(n) == <<n>>

NoMessage == [kind |-> "none", detail |-> <<>>]
NoLogs == [success |-> FALSE, logs |-> <<>>, totalLines |-> 0,
           errorMessage |-> NoMessage, filteredLines |-> Undefined]
Settled(how, value, reason) == [how |-> how, value |-> value, reason |-> reason]

LogIdle ==
    /\ filter = NoFilter /\ cmd = Settled("none", NoResult, <<>>) /\ logsPc = "off"
    /\ logsResult = NoLogs

\* ------------------------------------------------- parseLogLine: values
\* A LogEntry (lines 3-19).  Optional fields are Undefined or Defined(v);
\* isIamDenial is FALSE where the code leaves it undefined.  entry.service and
\* entry.operation are left out: lines 165-206 assign nothing else.
NoEntry == [timestamp |-> Undefined, level |-> Undefined, statusCode |-> Undefined,
            message |-> "", fullLine |-> "", isApiCall |-> FALSE, isError |-> FALSE,
            isWarning |-> FALSE, isIamDenial |-> FALSE, iamPrincipal |-> Undefined,
            iamAction |-> Undefined, iamResource |-> Undefined]

ParseIdle == rawLine = "" /\ entry = NoEntry /\ parsePc = "off"

\* --------------------------- groupLogsByError, analyzeApiCalls: values
\* The object analyzeApiCalls returns (lines 327-335); the three Maps are
\* functions from their keys to counts, failedCallDetails holds the positions
\* of its entries in logs.
NoStats == [totalCalls |-> 0, successfulCalls |-> 0, failedCalls |-> 0,
            callsByService |-> <<>>, callsByOperation |-> <<>>,
            callsByStatus |-> <<>>, failedCallDetails |-> <<>>]

AnalysisIdle ==
    /\ logs = <<>> /\ groups = <<>> /\ groupPc = "off"
    /\ stats = NoStats /\ statsPc = "off"

\* ------------------------------------------- iam-policy.logic: values
NoPolicy == [Version |-> "2012-10-17", Statement |-> <<>>]

IamIdle ==
    /\ denials = <<>> /\ allLogs = <<>> /\ enriched = <<>>
    /\ permissions = <<>> /\ permissionsAgain = <<>>
    /\ policy = NoPolicy /\ principalPolicy = NoPolicy /\ iamPc = "off"

\* ------------------------------------------------ docker.client: values
\* A settled promise: resolved with a value or rejected with an Error's message.
Pending == [how |-> "pending"]
ResolvedWith(v) == [how |-> "resolved", value |-> v]
RejectedWith(message) == [how |-> "rejected", message |-> message]

\* The values an exit code can be: a number, null, undefined.
Num(n) == [type |-> "number", value |-> n]
JsNull == [type |-> "null"]
JsUndefined == [type |-> "undefined"]

FindIdle == running = Undefined /\ findPc = "off" /\ found = Pending
ExecFresh ==
    /\ stdinWritten = Undefined /\ streamEvents = <<>>
    /\ stdoutChunks = <<>> /\ stderrChunks = <<>> /\ inspectCalls = <<>>
    /\ inspect = Undefined /\ execResult = Pending
ExecIdle == stdin = Undefined /\ execPc = "off" /\ ExecFresh
AwsFresh == awsSteps = <<>> /\ awsCmd = Undefined /\ awsResponse = Undefined
AwsIdle == awsCommand = "" /\ awsPc = "off" /\ AwsFresh
DeployFresh == deployCommands = <<>> /\ deployResults = <<>> /\ deployEvents = <<>>
DeployIdle == projectType = "" /\ deployAction = "" /\ deployPc = "off" /\ DeployFresh
DockerIdle == FindIdle /\ ExecIdle
ToolIdle == DockerIdle /\ AwsIdle /\ DeployIdle

\* The components that are not running in a specification.
LibIdle == ParseIdle /\ AnalysisIdle /\ IamIdle /\ ToolIdle

\* ---------------------------------------------------- runCommand: steps
Init == RcInputs /\ RcFresh /\ LogIdle /\ LibIdle

\* spawn(command, args, options), line 30.  "ok": the process runs.  "fail": the
\* spawn failed with an errno node reports on the next tick as an 'error' event
\* (ENOENT, EACCES, ...).  "throw": spawn throws synchronously (an empty command,
\* an argument with a NUL byte, E2BIG, ...); the throw leaves the promise
\* executor, which rejects the promise, before the timer and the handlers exist.
Spawn ==
    /\ promise = "none"
    /\ \E outcome \in {"ok", "fail", "throw"} :
          IF outcome = "throw"
          THEN /\ promise' = "rejected"
               /\ UNCHANGED <<child, childCode, timer>>
          ELSE /\ promise' = "pending"
               /\ timer' = "armed"
               /\ child' = IF outcome = "ok" THEN "alive" ELSE "spawnfail"
               /\ childCode' = IF outcome = "ok" THEN NullCode ELSE Code(ENOENT)
    /\ UNCHANGED <<rcInputs, resolveCount, result, stdout, stderr, outBytes, errBytes,
                   timedOut, bufferExceeded, error, grace, onDataCalls, killed, killLog,
                   chunksLeft, errAfterTimer, graceDone, logVars, libVars, toolVars>>

\* child.kill(sig): "nohandle" when the process has already ended (returns false),
\* "delivered" when the signal was sent (child.killed becomes true), "eperm" when
\* the OS refuses the signal (node emits 'error' from inside kill()).
KillOutcome ==
    IF child # "alive" THEN "nohandle"
    ELSE IF signalable THEN "delivered" ELSE "eperm"

\* killProcess with line 42 left out: the reason is never stored.
KillProcess_KeepsError(reason) ==
    IF killed
    THEN [error |-> error, killed |-> killed, killLog |-> killLog, grace |-> grace,
          event |-> FALSE]
    ELSE LET o == KillOutcome IN
         [error |-> IF o = "eperm" THEN KillError ELSE error,
          killed |-> (o = "delivered"),
          killLog |-> Append(killLog, [sig |-> killSignal, outcome |-> o]),
          grace |-> grace + 1,
          event |-> (o = "eperm")]

\* killProcess(reason), lines 40-47: the values of error, child.killed, the kill
\* log and the number of pending grace timers after the call.
KillProcess(reason) ==
    IF killed
    THEN [error |-> error, killed |-> killed, killLog |-> killLog, grace |-> grace,
          event |-> FALSE]
    ELSE LET o == KillOutcome IN
         [error |-> IF o = "eperm" THEN KillError ELSE reason,
          killed |-> (o = "delivered"),
          killLog |-> Append(killLog, [sig |-> killSignal, outcome |-> o]),
          grace |-> grace + 1,
          event |-> (o = "eperm")]

\* The timeout timer's callback, lines 49-52.  A spawn failure's 'error' event is
\* emitted on the next tick, before any timer can fire.
TimerFire ==
    /\ promise = "pending" /\ timer = "armed" /\ child # "spawnfail"
    /\ LET k == KillProcess(TimeoutError(timeout)) IN
          /\ timedOut' = TRUE
          /\ timer' = "fired"
          /\ error' = k.error /\ killed' = k.killed /\ killLog' = k.killLog
          /\ grace' = k.grace
          /\ errAfterTimer' = (errAfterTimer \/ k.event)
    /\ UNCHANGED <<rcInputs, promise, resolveCount, result, stdout, stderr, outBytes,
                   errBytes, bufferExceeded, onDataCalls, child, childCode, chunksLeft,
                   graceDone, logVars, libVars, toolVars>>

\* The grace timer's callback, lines 44-46.  It is never cleared, so it also fires
\* after the call has resolved.
GraceFire ==
    /\ grace > 0
    /\ grace' = grace - 1
    /\ graceDone' = TRUE
    /\ IF killed
       THEN UNCHANGED <<killed, killLog, error, errAfterTimer>>
       ELSE LET o == KillOutcome IN
            /\ killed' = (o = "delivered")
            /\ killLog' = Append(killLog, [sig |-> "SIGKILL", outcome |-> o])
            /\ error' = IF o = "eperm" THEN KillError ELSE error
            /\ errAfterTimer' = (errAfterTimer \/ (o = "eperm" /\ timedOut))
    /\ UNCHANGED <<rcInputs, promise, resolveCount, result, stdout, stderr, outBytes,
                   errBytes, timedOut, bufferExceeded, timer, onDataCalls, child,
                   childCode, chunksLeft, logVars, libVars, toolVars>>

\* The guard of line 55 without the buffer-exceeded flag.
Suppressed_TimeoutOnly == timedOut

\* The early return of onChunk, line 55.
Suppressed == timedOut \/ bufferExceeded

\* onChunk(isStdout)(chunk), lines 54-76.
OnChunk(isStdout, chunk) ==
    IF Suppressed
    THEN UNCHANGED <<stdout, stderr, outBytes, errBytes, onDataCalls, bufferExceeded,
                     error, killed, killLog, grace, errAfterTimer>>
    ELSE LET bytes == (IF isStdout THEN outBytes ELSE errBytes) + Len(chunk)
             over == bytes > maxBuffer
             k == KillProcess(BufferError(IF isStdout THEN "stdout" ELSE "stderr",
                                          maxBuffer))
         IN
         /\ outBytes' = IF isStdout THEN bytes ELSE outBytes
         /\ errBytes' = IF isStdout THEN errBytes ELSE bytes
         /\ stdout' = IF isStdout THEN stdout \o chunk ELSE stdout
         /\ stderr' = IF isStdout THEN stderr ELSE stderr \o chunk
         /\ onDataCalls' = IF onData THEN onDataCalls + 1 ELSE onDataCalls
         /\ bufferExceeded' = over
         /\ error' = IF over THEN k.error ELSE error
         /\ killed' = IF over THEN k.killed ELSE killed
         /\ killLog' = IF over THEN k.killLog ELSE killLog
         /\ grace' = IF over THEN k.grace ELSE grace
         /\ UNCHANGED errAfterTimer

\* A 'data' event of child.stdout / child.stderr, lines 78-79.  The pipes outlive
\* the process: data still arrives between the child's exit and 'close'.
DataEnabled ==
    /\ promise = "pending" /\ chunksLeft > 0
    /\ child \in {"alive", "exited", "signaled"}

StdoutData ==
    /\ DataEnabled
    /\ chunksLeft' = chunksLeft - 1
    /\ \E chunk \in OutChunks : OnChunk(TRUE, chunk)
    /\ UNCHANGED <<rcInputs, promise, resolveCount, result, timedOut, timer, child,
                   childCode, graceDone, logVars, libVars, toolVars>>

StderrData ==
    /\ DataEnabled
    /\ chunksLeft' = chunksLeft - 1
    /\ \E chunk \in ErrChunks : OnChunk(FALSE, chunk)
    /\ UNCHANGED <<rcInputs, promise, resolveCount, result, timedOut, timer, child,
                   childCode, graceDone, logVars, libVars, toolVars>>

\* child.on("error"), lines 81-83, for the 'error' event of a failed spawn.
OnError ==
    /\ promise = "pending" /\ child = "spawnfail"
    /\ child' = "failed"
    /\ error' = SpawnError
    /\ errAfterTimer' = (errAfterTimer \/ timedOut)
    /\ UNCHANGED <<rcInputs, promise, resolveCount, result, stdout, stderr, outBytes,
                   errBytes, timedOut, bufferExceeded, timer, grace, onDataCalls,
                   childCode, killed, killLog, chunksLeft, graceDone, logVars, libVars, toolVars>>

\* The program ends by itself (also: it handles the signal and exits).
ChildExit ==
    /\ child = "alive"
    /\ \E n \in {0, 1} : childCode' = Code(n)
    /\ child' = "exited"
    /\ UNCHANGED <<rcInputs, promise, resolveCount, result, stdout, stderr, outBytes,
                   errBytes, timedOut, bufferExceeded, error, timer, grace, onDataCalls,
                   killed, killLog, chunksLeft, errAfterTimer, graceDone, logVars, libVars, toolVars>>

\* A delivered signal ends the process: SIGKILL always, another signal unless the
\* program ignores it.  'close' then carries code null.
Lethal(k) == k.outcome = "delivered" /\ (k.sig = "SIGKILL" \/ ~ignoresTerm)

ChildDies ==
    /\ child = "alive"
    /\ \E i \in 1..Len(killLog) : Lethal(killLog[i])
    /\ child' = "signaled"
    /\ childCode' = NullCode
    /\ UNCHANGED <<rcInputs, promise, resolveCount, result, stdout, stderr, outBytes,
                   errBytes, timedOut, bufferExceeded, error, timer, grace, onDataCalls,
                   killed, killLog, chunksLeft, errAfterTimer, graceDone, logVars, libVars, toolVars>>

\* Lines 87-89 without the "&& !error" test.
CloseError_NoErrorCheck(code) ==
    IF ~timedOut /\ ~bufferExceeded /\ code # Code(0)
    THEN ExitError(code, Trim(stderr))
    ELSE error

\* Lines 87-89 left out: no error is made from the exit code.
CloseError_AsIs(code) == error

\* The error the 'close' handler passes on, lines 87-89.
CloseError(code) ==
    IF ~timedOut /\ ~bufferExceeded /\ code # Code(0) /\ error = NoError
    THEN ExitError(code, Trim(stderr))
    ELSE error

\* child.on("close"), lines 85-91.
OnClose ==
    /\ promise = "pending"
    /\ child \in {"failed", "exited", "signaled"}
    /\ timer' = IF timer = "armed" THEN "cleared" ELSE timer
    /\ error' = CloseError(childCode)
    /\ result' = [stdout |-> stdout, stderr |-> stderr, error |-> error',
                  exitCode |-> childCode, set |-> TRUE]
    /\ resolveCount' = resolveCount + 1
    /\ promise' = "resolved"
    /\ UNCHANGED <<rcInputs, stdout, stderr, outBytes, errBytes, timedOut, bufferExceeded,
                   grace, onDataCalls, child, childCode, killed, killLog, chunksLeft,
                   errAfterTimer, graceDone, logVars, libVars, toolVars>>

\* -------------------------------------------------- retrieveLogs: steps
\* What a resolved CommandResult looks like (lines 85-91): no error only with
\* exit code 0, the exit-code error carries the trimmed stderr, a failed spawn
\* wrote nothing.
ResultShapeOK(r) ==
    /\ r.error.kind = "none" => r.exitCode = Code(0)
    /\ r.error.kind = "exit" =>
          /\ r.exitCode # Code(0)
          /\ r.error = ExitError(r.exitCode, Trim(r.stderr))
    /\ r.error.kind = "spawn" =>
          /\ r.exitCode = Code(ENOENT) /\ r.stdout = <<>> /\ r.stderr = <<>>
          /\ r.error = SpawnError

\* Strings of the log command: two letters in both cases, blank, newline.
LogTexts == {<<>>} \cup SeqsUpTo({"a", "A", " ", "\n"}, MaxLogLen)
LogStderrs == {<<>>, <<"e">>, <<" ">>}
Filters ==
    {NoFilter} \cup {[given |-> TRUE, text |-> t] :
                        t \in {<<>>} \cup SeqsUpTo({"a", "A", "b"}, MaxFilterLen)}

\* The errors and exit codes a run of "localstack logs" can resolve with; its
\* output stays far below maxBuffer, so there is no overflow.
LogCommandResults ==
    {r \in [stdout : LogTexts, stderr : LogStderrs, set : {TRUE},
            exitCode : {Code(0), Code(1), Code(ENOENT), NullCode},
            error : {NoError, SpawnError, KillError, TimeoutError(LOGS_TIMEOUT)}
                      \cup {ExitError(c, t) : c \in {Code(1), NullCode},
                                              t \in {<<>>, <<"e">>}}] :
        ResultShapeOK(r)}

\* Messages of the exceptions spawn() throws synchronously.
ThrownMessages == {<<"spawn", "ENOMEM">>, <<"spawn", "EINVAL">>}

LogsInit ==
    /\ logsPc = "awaiting"
    /\ logsResult = NoLogs
    /\ filter \in Filters
    /\ \/ \E r \in LogCommandResults : cmd = Settled("resolved", r, <<>>)
       \/ \E m \in ThrownMessages : cmd = Settled("rejected", NoResult, m)

\* String.prototype.split("\n"): the pieces between the newlines, empty ones kept.
RECURSIVE SplitFrom(_, _, _)
SplitFrom(s, i, piece) ==
    IF i > Len(s) THEN <<piece>>
    ELSE IF s[i] = "\n" THEN <<piece>> \o SplitFrom(s, i + 1, <<>>)
    ELSE SplitFrom(s, i + 1, Append(piece, s[i]))

SplitLines(s) == SplitFrom(s, 1, <<>>)

\* toLowerCase on the characters used here.
LowerChar(c) == CASE c = "A" -> "a" [] c = "B" -> "b" [] OTHER -> c
ToLowerCase(s) == [i \in 1..Len(s) |-> LowerChar(s[i])]

\* String.prototype.includes.
Includes(hay, needle) ==
    \E i \in 1..(Len(hay) + 1) :
        /\ i + Len(needle) - 1 <= Len(hay)
        /\ SubSeq(hay, i, i + Len(needle) - 1) = needle

NonBlank(line) == Trim(line) # <<>>

\* The filter predicate with the toLowerCase calls left out.
LineMatches_CaseSensitive(line, f) == Includes(line, f)

\* The filter predicate, lines 55-57.
LineMatches(line, f) == Includes(ToLowerCase(line), ToLowerCase(f))

\* parseLogLine keeps the raw line in fullLine (line 106); retrieveLogs uses
\* nothing else of the entry.
ParseLogLine(line) == [fullLine |-> line]

\* The test of line 42 asking for an error instead of an empty stdout.
StderrOnly_NeedsError(c) == c.error # NoError /\ c.stderr # <<>>

\* !cmd.stdout && cmd.stderr, line 42.
StderrOnly(c) == c.stdout = <<>> /\ c.stderr # <<>>

Failure(kind, detail) ==
    [success |-> FALSE, logs |-> <<>>, totalLines |-> 0,
     errorMessage |-> [kind |-> kind, detail |-> detail],
     filteredLines |-> Undefined]

\* The try block, lines 38-67, for a resolved command.
LogsFromResult(c, f) ==
    IF StderrOnly(c)
    THEN Failure("failed", c.stderr)
    ELSE LET rawLines == SelectSeq(SplitLines(c.stdout), NonBlank)
             Keep(line) == LineMatches(line, f.text)
             truthy == f.given /\ f.text # <<>>
             filteredLines == IF truthy THEN SelectSeq(rawLines, Keep) ELSE rawLines
         IN [success |-> TRUE,
             logs |-> [i \in 1..Len(filteredLines) |-> ParseLogLine(filteredLines[i])],
             totalLines |-> Len(rawLines),
             errorMessage |-> NoMessage,
             filteredLines |-> IF truthy THEN Defined(Len(filteredLines))
                               ELSE Undefined]

\* errorMessage.includes(words), on messages kept as sequences of words.
Mentions(msg, words) == Includes(msg, words)

\* The catch block, lines 68-97.
LogsFromException(msg) ==
    IF Mentions(msg, <<"timeout">>)
    THEN Failure("timedOut", <<>>)
    ELSE IF Mentions(msg, <<"Command", "failed">>) \/ Mentions(msg, <<"not", "found">>)
    THEN Failure("install", <<>>)
    ELSE Failure("failed", msg)

\* retrieveLogs, lines 36-98, from the point where the awaited command settles.
RetrieveLogs ==
    /\ logsPc = "awaiting"
    /\ logsPc' = "done"
    /\ logsResult' = IF cmd.how = "resolved"
                     THEN LogsFromResult(cmd.value, filter)
                     ELSE LogsFromException(cmd.reason)
    /\ UNCHANGED <<rcVars, toolVars, filter, cmd, libVars>>

Next ==
    \/ Spawn
    \/ TimerFire
    \/ GraceFire
    \/ StdoutData
    \/ StderrData
    \/ OnError
    \/ ChildExit
    \/ ChildDies
    \/ OnClose

Spec == Init /\ [][Next]_vars

\* The event loop runs every callback that is due, and the OS ends a process that
\* got a signal it does not ignore and closes its pipes; a program need not end
\* by itself and need not write.
Fairness ==
    /\ WF_vars(Spawn) /\ WF_vars(TimerFire) /\ WF_vars(GraceFire)
    /\ WF_vars(OnError) /\ WF_vars(ChildDies) /\ WF_vars(OnClose)

FairSpec == Init /\ [][Next]_vars /\ Fairness

\* retrieveLogs on every way its command can settle.
LogsNext == RetrieveLogs
LogsSpecInit == RcIdle /\ LogsInit /\ LibIdle
LogsSpec == LogsSpecInit /\ [][LogsNext]_vars

\* ------------------------------------------------ parseLogLine: strings
\* Lines are strings; At(s, i) is the character at index i (from 1), "" outside.
At(s, i) == IF i >= 1 /\ i <= Len(s) THEN SubSeq(s, i, i) ELSE ""
From(s, i) == SubSeq(s, i, Len(s))
Between(s, i, j) == SubSeq(s, i, j - 1)
StartsAt(s, i, lit) == i + Len(lit) - 1 <= Len(s) /\ Between(s, i, i + Len(lit)) = lit
Min(S) == CHOOSE x \in S : \A y \in S : x <= y

\* F of the value of v and F of the values of v and w, as a function body reads
\* its `const x = v`: v is computed once however often F reads x.
Once(v, F(_)) == CHOOSE r \in {F(x) : x \in {v}} : TRUE
Once2(v, w, F(_, _)) == CHOOSE r \in {F(x, y) : x \in {v}, y \in {w}} : TRUE

UpperChars == "ABCDEFGHIJKLMNOPQRSTUVWXYZ"
LowerChars == "abcdefghijklmnopqrstuvwxyz"
DigitChars == "0123456789"
CharsOf(s) == {At(s, k) : k \in 1..Len(s)}
Digit == CharsOf(DigitChars)                      \* \d
Letter == CharsOf(UpperChars \o LowerChars)       \* [A-Za-z]
WordChar == Letter \cup Digit \cup {"_"}          \* \w
Whitespace == {" ", "\t"}                         \* \s within one line

\* The index after the longest run of characters of class C starting at i (C+ and
\* C* are greedy), and the same for the complement class [^...].
RunEnd(s, i, C) ==
    Once2(s, i, LAMBDA t, p :
        IF At(t, p) \notin C THEN p
        ELSE CHOOSE e \in (p + 1)..(Len(t) + 1) :
                At(t, e) \notin C /\ \A k \in p..(e - 1) : At(t, k) \in C)
RunEndNot(s, i, C) ==
    Once2(s, i, LAMBDA t, p :
        IF p > Len(t) \/ At(t, p) \in C THEN p
        ELSE CHOOSE e \in (p + 1)..(Len(t) + 1) :
                /\ e > Len(t) \/ At(t, e) \in C
                /\ \A k \in p..(e - 1) : At(t, k) \notin C)
RunStart(s, j, C) ==
    Once2(s, j, LAMBDA t, p :
        IF At(t, p) \notin C THEN p
        ELSE CHOOSE b \in 0..(p - 1) :
                At(t, b) \notin C /\ \A k \in (b + 1)..p : At(t, k) \in C)

\* String.prototype.trim and toLowerCase.
trim(s) ==
    Once(s, LAMBDA t : SubSeq(t, RunEnd(t, 1, Whitespace), RunStart(t, Len(t), Whitespace)))
lowerOf(c) ==
    IF c \in CharsOf(UpperChars)
    THEN At(LowerChars, CHOOSE k \in 1..Len(UpperChars) : At(UpperChars, k) = c)
    ELSE c
RECURSIVE toLowerCase(_)
toLowerCase(s) ==
    Once(s, LAMBDA t :
        IF Len(t) <= 1 THEN lowerOf(t)
        ELSE toLowerCase(SubSeq(t, 1, Len(t) \div 2))
             \o toLowerCase(SubSeq(t, Len(t) \div 2 + 1, Len(t))))

\* parseInt on the captures it is given here: the value of the leading decimal
\* digits, NaN when there is none.
NaN == <<>>
RECURSIVE DigitsValue(_)
DigitsValue(s) ==
    Once(s, LAMBDA t :
        IF t = "" THEN 0
        ELSE 10 * DigitsValue(Between(t, 1, Len(t)))
             + (CHOOSE n \in 0..9 : At(DigitChars, n + 1) = At(t, Len(t))))
parseInt(s) ==
    Once(s, LAMBDA u :
        Once(From(u, RunEnd(u, 1, Whitespace)), LAMBDA t :
            Once(RunEnd(t, 1, Digit), LAMBDA j :
                IF j = 1 THEN NaN ELSE Defined(DigitsValue(Between(t, 1, j))))))

\* String.prototype.match of a pattern without the g flag: the leftmost index
\* at which the pattern, M(s, i), matches.
NoMatch == [ok |-> FALSE]
Match(from, to, g) == [ok |-> TRUE, from |-> from, to |-> to, g |-> g]
FirstMatchFrom(M(_, _), s, p) ==
    LET I == {i \in p..Len(s) : M(s, i).ok}
    IN IF I = {} THEN NoMatch ELSE M(s, Min(I))
FirstMatch(M(_, _), s) == FirstMatchFrom(M, s, 1)

\* ----------------------------------------------- parseLogLine: patterns
\* Each pattern is an operator telling whether, and how, it matches s at index i.
\* A quantified class is followed in every pattern by a character outside the
\* class, so its greedy run is the only length with which a match can complete.

\* /(\d{4}-\d{2}-\d{2}T\d{2}:\d{2}:\d{2}\.\d{3})/; in the shape "d" stands for \d.
TimestampShape == "dddd-dd-ddTdd:dd:dd.ddd"
MatchesShape(s, i, shape) ==
    /\ i + Len(shape) - 1 <= Len(s)
    /\ \A k \in 1..Len(shape) :
          IF At(shape, k) = "d" THEN At(s, i + k - 1) \in Digit
          ELSE At(s, i + k - 1) = At(shape, k)
TimestampAt(s, i) ==
    IF MatchesShape(s, i, TimestampShape)
    THEN Match(i, i + Len(TimestampShape), <<Between(s, i, i + Len(TimestampShape))>>)
    ELSE NoMatch

\* /\s+(DEBUG|INFO|WARN|WARNING|ERROR|FATAL|TRACE)\s+/ and, for one level L,
\* new RegExp(`\\s+${L}\\s+`).
Levels == <<"DEBUG", "INFO", "WARN", "WARNING", "ERROR", "FATAL", "TRACE">>
LevelWordAt(s, i, L) ==
    LET j == RunEnd(s, i, Whitespace)
    IN IF j > i /\ StartsAt(s, j, L) /\ At(s, j + Len(L)) \in Whitespace
       THEN Match(i, RunEnd(s, j + Len(L), Whitespace), <<L>>)
       ELSE NoMatch
LevelAt(s, i) ==
    LET K == {k \in 1..Len(Levels) : LevelWordAt(s, i, Levels[k]).ok}
    IN IF K = {} THEN NoMatch ELSE LevelWordAt(s, i, Levels[Min(K)])

\* /AWS\s+([a-z0-9_-]+)\.([A-Za-z]+)\s*=>\s*(\d{3})\s*(?:\(([^)]+)\))?/
ApiServiceChar == CharsOf(LowerChars) \cup Digit \cup {"_", "-"}
ApiAt(s, i) ==
    LET a == i + 3
        b == RunEnd(s, a, Whitespace)
        c == RunEnd(s, b, ApiServiceChar)
        d == RunEnd(s, c + 1, Letter)
        e == RunEnd(s, d, Whitespace)
        f == RunEnd(s, e + 2, Whitespace)
        g == RunEnd(s, f + 3, Whitespace)
        h == RunEndNot(s, g + 1, {")"})
        hasDetail == At(s, g) = "(" /\ h > g + 1 /\ At(s, h) = ")"
    IN IF /\ StartsAt(s, i, "AWS") /\ b > a /\ c > b /\ At(s, c) = "." /\ d > c + 1
          /\ StartsAt(s, e, "=>") /\ \A k \in 0..2 : At(s, f + k) \in Digit
       THEN Match(i, IF hasDetail THEN h + 1 ELSE g,
                  <<Between(s, b, c), Between(s, c + 1, d), Between(s, f, f + 3),
                    IF hasDetail THEN Defined(Between(s, g + 1, h)) ELSE Undefined>>)
       ELSE NoMatch

\* /(GET|POST|PUT|DELETE|HEAD|PATCH|OPTIONS)\s+[^\s]+\s+(\d{3})/
HttpMethods == <<"GET", "POST", "PUT", "DELETE", "HEAD", "PATCH", "OPTIONS">>
HttpAt(s, i) ==
    LET K == {k \in 1..Len(HttpMethods) : StartsAt(s, i, HttpMethods[k])}
        m == HttpMethods[Min(K)]
        a == i + Len(m)
        b == RunEnd(s, a, Whitespace)
        c == RunEndNot(s, b, Whitespace)
        d == RunEnd(s, c, Whitespace)
    IN IF K # {} /\ b > a /\ c > b /\ d > c /\ \A k \in 0..2 : At(s, d + k) \in Digit
       THEN Match(i, d + 3, <<m, Between(s, d, d + 3)>>)
       ELSE NoMatch

\* /(\d{3})\s+(OK|Created|...|Service Unavailable)/i
Reasons == <<"OK", "Created", "Accepted", "Bad Request", "Unauthorized", "Forbidden",
             "Not Found", "Method Not Allowed", "Conflict", "Internal Server Error",
             "Bad Gateway", "Service Unavailable">>
ReasonAt(s, i) ==
    LET a == i + 3
        b == RunEnd(s, a, Whitespace)
        K == {k \in 1..Len(Reasons) :
                /\ b + Len(Reasons[k]) - 1 <= Len(s)
                /\ toLowerCase(Between(s, b, b + Len(Reasons[k]))) = toLowerCase(Reasons[k])}
    IN IF (\A k \in 0..2 : At(s, i + k) \in Digit) /\ b > a /\ K # {}
       THEN Match(i, b + Len(Reasons[Min(K)]),
                  <<Between(s, i, a), Between(s, b, b + Len(Reasons[Min(K)]))>>)
       ELSE NoMatch

\* /Request for service '([^']*)' by principal '([^']*)' for operation '([^']*)' denied\./
IamDenialAt(s, i) ==
    LET l1 == "Request for service '"
        l2 == "' by principal '"
        l3 == "' for operation '"
        l4 == "' denied."
        a == i + Len(l1)
        b == RunEndNot(s, a, {"'"})
        c == b + Len(l2)
        d == RunEndNot(s, c, {"'"})
        e == d + Len(l3)
        f == RunEndNot(s, e, {"'"})
    IN IF StartsAt(s, i, l1) /\ StartsAt(s, b, l2) /\ StartsAt(s, d, l3) /\ StartsAt(s, f, l4)
       THEN Match(i, f + Len(l4), <<Between(s, a, b), Between(s, c, d), Between(s, e, f)>>)
       ELSE NoMatch

\* /Action '([^']*)' for '([^']*)'/g and the exec loop of lines 226-230: the last
\* of the successive matches, `last` when there is none.
IamResourceAt(s, i) ==
    LET l1 == "Action '"
        l2 == "' for '"
        a == i + Len(l1)
        b == RunEndNot(s, a, {"'"})
        c == b + Len(l2)
        d == RunEndNot(s, c, {"'"})
    IN IF StartsAt(s, i, l1) /\ StartsAt(s, b, l2) /\ At(s, d) = "'"
       THEN Match(i, d + 1, <<Between(s, a, b), Between(s, c, d)>>)
       ELSE NoMatch
RECURSIVE LastResourceFrom(_, _, _)
LastResourceFrom(s, p, last) ==
    Once(FirstMatchFrom(IamResourceAt, s, p), LAMBDA m :
        IF m.ok THEN LastResourceFrom(s, m.to, m) ELSE last)

\* ------------------------------------------------- parseLogLine: steps
ErrorLevels_ErrorOnly == {"ERROR"}
ErrorLevels == {"ERROR", "FATAL"}
WarningLevels == {"WARN", "WARNING"}

\* String.prototype.replace of the first match m by a string.
ReplaceMatch(s, m, by) ==
    Once2(s, m, LAMBDA t, n : IF n.ok THEN Between(t, 1, n.from) \o by \o From(t, n.to) ELSE t)
LiteralAt(s, i, lit) == IF StartsAt(s, i, lit) THEN Match(i, i + Len(lit), <<>>) ELSE NoMatch

\* Lines 232-241: the line without its timestamp, its level, a leading run of
\* ":", "-" and blanks, and a leading "[...]" (.*? stops at the first "]").
CleanMessage(l, timestamp, level) ==
    LET WithoutTimestamp(c) ==
            IF timestamp # Undefined
            THEN trim(ReplaceMatch(c, FirstMatch(LAMBDA t, i : LiteralAt(t, i, timestamp[1]), c), ""))
            ELSE c
        WithoutLevel(c) ==
            IF level # Undefined
            THEN trim(ReplaceMatch(c, FirstMatch(LAMBDA t, i : LevelWordAt(t, i, level[1]), c), " "))
            ELSE c
        WithoutLead(c) == trim(From(c, RunEnd(c, 1, {":", "-"} \cup Whitespace)))
        WithoutTag(c) ==
            IF At(c, 1) = "["
            THEN Once(RunEndNot(c, 2, {"]"}), LAMBDA k :
                     IF At(c, k) = "]" THEN trim(From(c, RunEnd(c, k + 1, Whitespace))) ELSE c)
            ELSE c
    IN Once(Once(Once(Once(l, WithoutTimestamp), WithoutLevel), WithoutLead), WithoutTag)

\* Line 138: the message of a primary API match that has a detail.
FailedMessage(operation, detail, statusCode) ==
    operation \o " failed: " \o detail \o " (" \o ToString(statusCode) \o ")"

\* Line 155: match[match.length - 1] || match[1].
StatusCapture(m) == IF m.g[Len(m.g)] # "" THEN m.g[Len(m.g)] ELSE m.g[1]

\* Lines 143-163: the first of the two fallback patterns that matches.
OtherApiMatch(l) ==
    IF FirstMatch(HttpAt, l).ok THEN FirstMatch(HttpAt, l) ELSE FirstMatch(ReasonAt, l)

\* Lines 225-230.
WithResource_ResourceOnly(e, res) ==
    IF res.ok THEN [e EXCEPT !.iamResource = Defined(res.g[2])] ELSE e
WithResource(e, res) ==
    IF res.ok
    THEN [e EXCEPT !.iamAction = Defined(res.g[1]), !.iamResource = Defined(res.g[2])]
    ELSE e

\* Lines 243-247.
FinalMessage(l, message, cleanMessage) ==
    Once(cleanMessage, LAMBDA c : IF c = "" \/ c = l THEN l ELSE c)

\* parseLogLine, lines 103-250.
parseLogLine(l) ==
    LET ts == FirstMatch(TimestampAt, l)
        lv == FirstMatch(LevelAt, l)
        api == FirstMatch(ApiAt, l)
        other == OtherApiMatch(l)
        iam == FirstMatch(IamDenialAt, l)
        e1 == [NoEntry EXCEPT !.message = l, !.fullLine = l]
        e2 == Once(ts, LAMBDA m :
                  IF m.ok THEN [e1 EXCEPT !.timestamp = Defined(m.g[1])] ELSE e1)
        e3 == Once(lv, LAMBDA m :
                  IF m.ok
                  THEN [e2 EXCEPT !.level = Defined(m.g[1]),
                                  !.isError = m.g[1] \in ErrorLevels,
                                  !.isWarning = m.g[1] \in WarningLevels]
                  ELSE e2)
        e4 == Once2(e3, api, LAMBDA e, m :
                  IF m.ok
                  THEN Once(parseInt(m.g[3])[1], LAMBDA statusCode :
                           [e EXCEPT !.isApiCall = TRUE,
                                     !.statusCode = Defined(statusCode),
                                     !.isError = e.isError \/ statusCode >= 400,
                                     !.message = IF m.g[4] # Undefined
                                                 THEN FailedMessage(m.g[2], m.g[4][1], statusCode)
                                                 ELSE @])
                  ELSE e)
        e5 == Once2(e4, other, LAMBDA e, m :
                  IF ~e.isApiCall /\ m.ok
                  THEN Once(parseInt(StatusCapture(m)), LAMBDA statusCode :
                           IF statusCode # NaN
                           THEN [e EXCEPT !.isApiCall = TRUE,
                                          !.statusCode = statusCode,
                                          !.isError = e.isError \/ statusCode[1] >= 400]
                           ELSE [e EXCEPT !.isApiCall = TRUE])
                  ELSE e)
        e6 == Once(e5, LAMBDA e :
                  IF e.statusCode # Undefined /\ e.statusCode[1] >= 400
                  THEN [e EXCEPT !.isError = TRUE]
                  ELSE e)
        e7 == Once(iam, LAMBDA m :
                  IF m.ok
                  THEN [e6 EXCEPT !.isIamDenial = TRUE,
                                  !.iamPrincipal = Defined(m.g[2]),
                                  !.iamAction = Defined(toLowerCase(m.g[1]) \o ":" \o m.g[3]),
                                  !.isError = TRUE]
                  ELSE e6)
        e8 == WithResource(e7, LastResourceFrom(l, 1, NoMatch))
    IN Once(e8, LAMBDA e :
           [e EXCEPT !.message = FinalMessage(l, e.message, CleanMessage(l, e.timestamp, e.level))])

\* ------------------------------------------------ parseLogLine: inputs
\* Lines as `localstack logs` prints them: an optional prefix (timestamp, level,
\* thread, logger), a body and an optional trailer.
LineHeads ==
    {"",
     "2025-07-23T10:58:58.710 INFO ",
     "2025-07-23T10:58:58.710  ERROR --- [et.reactor-0] localstack.request.aws : ",
     "2025-07-23T10:59:01.002  WARN --- [asgi_gw_0] localstack: ",
     " FATAL ",
     "DEBUG: "}
LineBodies ==
    {"AWS s3.PutObject => 404 (NoSuchBucket)",
     "AWS s3.ListBuckets => 200",
     "AWS sqs.SendMessage => 500 (InternalError)",
     "AWS lambda.Invoke => 200 (dry run)",
     "GET /_localstack/health 200",
     "POST /queue/q1 403",
     "404 Not Found",
     "replied 200 ok",
     "503 Service Unavailable",
     "Request for service 's3' by principal 'arn:aws:iam::000000000000:user/dev' for operation 'CreateBucket' denied.",
     "Request for service 'SQS' by principal 'root' for operation 'SendMessage' denied.",
     "Action 's3:CreateBucket' for 'arn:aws:s3:::b1'",
     "Ready."}
LineTails ==
    {"",
     " Action 's3:GetObject' for 'arn:aws:s3:::b2'",
     " (attempt 2)",
     " after GET /x 404"}
Lines == {h \o b \o t : h \in LineHeads, b \in LineBodies, t \in LineTails}

ParseInit == rawLine \in Lines /\ entry = NoEntry /\ parsePc = "called"

\* One call of parseLogLine.
ParseLine ==
    /\ parsePc = "called"
    /\ entry' = parseLogLine(rawLine)
    /\ parsePc' = "done"
    /\ UNCHANGED <<rcVars, toolVars, logVars, rawLine, analysisVars, iamVars>>

ParseNext == ParseLine
ParseSpecInit == RcIdle /\ LogIdle /\ ParseInit /\ AnalysisIdle /\ IamIdle /\ ToolIdle
ParseSpec == ParseSpecInit /\ [][ParseNext]_vars

\* --------------------------------------------------- groupLogsByError
\* The entries these functions read: isError, isWarning, isApiCall, service,
\* operation, statusCode and message of a LogEntry.  A Map entry's list holds the
\* positions in logs of the objects pushed to it.
Max(S) == CHOOSE x \in S : \A y \in S : x >= y

\* \b before index i: exactly one of the characters around it is a word character.
BoundaryAt(s, i) == (At(s, i - 1) \in WordChar) # (At(s, i) \in WordChar)

\* /\b[a-fA-F0-9-]{8,}\b/: the longest run of at least 8 class characters from i
\* that ends at a word boundary (the quantifier gives characters back until \b holds).
IdChar == CharsOf("abcdefABCDEF") \cup Digit \cup {"-"}
IdAt(s, i) ==
    LET J == {j \in (i + 8)..RunEnd(s, i, IdChar) : BoundaryAt(s, j)}
    IN IF BoundaryAt(s, i) /\ J # {} THEN Match(i, Max(J), <<>>) ELSE NoMatch

\* /\b\d{4}-\d{2}-\d{2}T\d{2}:\d{2}:\d{2}\.\d{3}\b/
StampAt(s, i) ==
    IF /\ BoundaryAt(s, i) /\ MatchesShape(s, i, TimestampShape)
       /\ BoundaryAt(s, i + Len(TimestampShape))
    THEN Match(i, i + Len(TimestampShape), <<>>)
    ELSE NoMatch

\* /\b\d+\.\d+\.\d+\.\d+\b/
IpAt(s, i) ==
    LET a == RunEnd(s, i, Digit)
        b == RunEnd(s, a + 1, Digit)
        c == RunEnd(s, b + 1, Digit)
        d == RunEnd(s, c + 1, Digit)
    IN IF /\ BoundaryAt(s, i) /\ a > i /\ At(s, a) = "." /\ b > a + 1 /\ At(s, b) = "."
          /\ c > b + 1 /\ At(s, c) = "." /\ d > c + 1 /\ BoundaryAt(s, d)
       THEN Match(i, d, <<>>)
       ELSE NoMatch

\* /\bport\s+\d+\b/
PortAt(s, i) ==
    LET a == i + Len("port")
        b == RunEnd(s, a, Whitespace)
        c == RunEnd(s, b, Digit)
    IN IF BoundaryAt(s, i) /\ StartsAt(s, i, "port") /\ b > a /\ c > b /\ BoundaryAt(s, c)
       THEN Match(i, c, <<>>)
       ELSE NoMatch

\* /\b\d{3,}\b/
NumberAt(s, i) ==
    LET e == RunEnd(s, i, Digit)
    IN IF BoundaryAt(s, i) /\ e >= i + 3 /\ BoundaryAt(s, e) THEN Match(i, e, <<>>) ELSE NoMatch

VolatileAt(kind, s, i) ==
    CASE kind = "ID" -> IdAt(s, i)
      [] kind = "TIMESTAMP" -> StampAt(s, i)
      [] kind = "IP" -> IpAt(s, i)
      [] kind = "PORT" -> PortAt(s, i)
      [] kind = "NUMBER" -> NumberAt(s, i)

\* String.prototype.replace with a g pattern: every match, left to right, each
\* search starting where the previous match ended.
RECURSIVE ReplaceAllFrom(_, _, _, _)
ReplaceAllFrom(kind, s, p, by) ==
    Once(FirstMatchFrom(LAMBDA t, i : VolatileAt(kind, t, i), s, p), LAMBDA m :
        IF m.ok
        THEN Between(s, p, m.from) \o by \o ReplaceAllFrom(kind, s, m.to, by)
        ELSE From(s, p))
ReplaceAll(kind, s, by) == Once(s, LAMBDA t : ReplaceAllFrom(kind, t, 1, by))

\* Lines 267-272, the replacements in the order of the chain.
Normalize(message) ==
    ReplaceAll("NUMBER",
      ReplaceAll("PORT",
        ReplaceAll("IP",
          ReplaceAll("TIMESTAMP",
            ReplaceAll("ID", message, "[ID]"),
            "[TIMESTAMP]"),
          "[IP]"),
        "port [PORT]"),
      "[NUMBER]")

\* JavaScript truthiness of an optional string and of an optional number.
TruthyText(v) == v # Undefined /\ v[1] # ""
TruthyNumber(v) == v # Undefined /\ v[1] # 0

\* Line 264 and lines 265-273.
KeyedAsApiCall(log) ==
    /\ log.isApiCall /\ TruthyText(log.service) /\ TruthyText(log.operation)
    /\ TruthyNumber(log.statusCode)
GroupKey(log) ==
    IF KeyedAsApiCall(log)
    THEN log.service[1] \o "." \o log.operation[1] \o " => " \o ToString(log.statusCode[1])
    ELSE Normalize(log.message)

\* Line 259.
Grouped_ErrorsOnly(log) == log.isError
Grouped(log) == log.isError \/ log.isWarning

\* Lines 275-278: groups.set(key, []) for a new key, then push.
PushTo(gs, key, i) ==
    IF \E k \in 1..Len(gs) : gs[k].key = key
    THEN [k \in 1..Len(gs) |->
            IF gs[k].key = key THEN [gs[k] EXCEPT !.members = Append(@, i)] ELSE gs[k]]
    ELSE Append(gs, [key |-> key, members |-> <<i>>])

\* The loop of lines 258-279 from entry i on.
RECURSIVE GroupFrom(_, _, _)
GroupFrom(ls, i, gs) ==
    IF i > Len(ls) THEN gs
    ELSE IF ~Grouped(ls[i]) THEN GroupFrom(ls, i + 1, gs)
    ELSE GroupFrom(ls, i + 1, PushTo(gs, GroupKey(ls[i]), i))
groupLogsByError(ls) == GroupFrom(ls, 1, <<>>)

\* ----------------------------------------------------- analyzeApiCalls
\* map.set(key, (map.get(key) || 0) + 1)
Bump(map, key) ==
    IF key \in DOMAIN map THEN [map EXCEPT ![key] = @ + 1] ELSE map @@ (key :> 1)

\* Line 296: the positions of the entries that are API calls, in order.
ApiLogs(ls) == SelectSeq([i \in 1..Len(ls) |-> i], LAMBDA i : ls[i].isApiCall)

\* Line 318.
IsFailure_ServerOnly(statusCode) == statusCode >= 500
IsFailure(statusCode) == statusCode >= 400

\* The body of the loop, lines 307-324, for the entry at position i.
CountCall(acc, log, i) ==
    LET a1 == IF TruthyText(log.service)
              THEN [acc EXCEPT !.callsByService = Bump(@, log.service[1])]
              ELSE acc
        a2 == IF TruthyText(log.operation)
              THEN [a1 EXCEPT !.callsByOperation = Bump(@, log.operation[1])]
              ELSE a1
    IN IF TruthyNumber(log.statusCode)
       THEN IF IsFailure(log.statusCode[1])
            THEN [a2 EXCEPT !.callsByStatus = Bump(@, log.statusCode[1]),
                            !.failedCalls = @ + 1,
                            !.failedCallDetails = Append(@, i)]
            ELSE [a2 EXCEPT !.callsByStatus = Bump(@, log.statusCode[1]),
                            !.successfulCalls = @ + 1]
       ELSE a2

RECURSIVE CountFrom(_, _, _, _)
CountFrom(ls, api, k, acc) ==
    IF k > Len(api) THEN acc
    ELSE CountFrom(ls, api, k + 1, CountCall(acc, ls[api[k]], api[k]))
analyzeApiCalls(ls) ==
    [CountFrom(ls, ApiLogs(ls), 1, NoStats) EXCEPT !.totalCalls = Len(ApiLogs(ls))]

\* ------------------------- groupLogsByError, analyzeApiCalls: inputs
ApiEntry(service, operation, statusCode, isError, isWarning, message) ==
    [isError |-> isError, isWarning |-> isWarning, isApiCall |-> TRUE,
     service |-> service, operation |-> operation, statusCode |-> statusCode,
     message |-> message]
TextEntry(isError, isWarning, message) ==
    [isError |-> isError, isWarning |-> isWarning, isApiCall |-> FALSE,
     service |-> Undefined, operation |-> Undefined, statusCode |-> Undefined,
     message |-> message]

\* Messages that embed an identifier or a timestamp in a fixed text.
IdTexts == {"550e8400-e29b-41d4-a716-446655440000", "deadbeef01"}
StampTexts == {"2025-07-23T10:58:58.710", "2025-07-23T10:59:01.002"}
Embedding == [before |-> "Lease lost at ", after |-> " by worker"]
Embed(x) == Embedding.before \o x \o Embedding.after

\* Entries as parseLogLine builds them: API calls with and without a status, a
\* status of 000, errors and warnings with volatile values, and a plain line.
LogSamples ==
    {ApiEntry(Defined("s3"), Defined("PutObject"), Defined(404), TRUE, FALSE,
              "AWS s3.PutObject => 404 (NoSuchBucket)"),
     ApiEntry(Defined("s3"), Defined("ListBuckets"), Defined(200), FALSE, FALSE,
              "AWS s3.ListBuckets => 200"),
     ApiEntry(Defined("sqs"), Undefined, Undefined, TRUE, FALSE,
              "sqs replied 503 Service Unavailable"),
     ApiEntry(Defined("s3"), Defined("PutObject"), Defined(0), FALSE, TRUE,
              "AWS s3.PutObject => 000"),
     TextEntry(FALSE, TRUE, "retry 127.0.0.1 port 4566 in 1500 ms"),
     TextEntry(FALSE, FALSE, "Ready.")}
    \cup {TextEntry(TRUE, FALSE, Embed(x)) : x \in IdTexts \cup StampTexts}

AnalysisInit ==
    /\ logs \in {<<>>} \cup SeqsUpTo(LogSamples, MaxLogs)
    /\ groups = <<>> /\ groupPc = "called"
    /\ stats = NoStats /\ statsPc = "called"

\* One call of groupLogsByError and one of analyzeApiCalls on the same list.
GroupLogsByError ==
    /\ groupPc = "called"
    /\ groups' = groupLogsByError(logs)
    /\ groupPc' = "done"
    /\ UNCHANGED <<rcVars, toolVars, logVars, parseVars, iamVars, logs, stats, statsPc>>

AnalyzeApiCalls ==
    /\ statsPc = "called"
    /\ stats' = analyzeApiCalls(logs)
    /\ statsPc' = "done"
    /\ UNCHANGED <<rcVars, toolVars, logVars, parseVars, iamVars, logs, groups, groupPc>>

AnalysisNext == GroupLogsByError \/ AnalyzeApiCalls
AnalysisSpecInit == RcIdle /\ LogIdle /\ ParseIdle /\ AnalysisInit /\ IamIdle /\ ToolIdle
AnalysisSpec == AnalysisSpecInit /\ [][AnalysisNext]_vars

\* ------------------------------------------- enrichWithResourceData
\* The entries these functions read: timestamp, iamPrincipal, iamAction and
\* iamResource of a LogEntry.

\* new Date("YYYY-MM-DDTHH:MM:SS.mmm"): the day, as a count of days, and the
\* millisecond of the day.
FieldOf(ts, i, j) == DigitsValue(Between(ts, i, j + 1))
DayNumber(y, m, d) ==
    LET yy == IF m <= 2 THEN y - 1 ELSE y
        era == yy \div 400
        yoe == yy - era * 400
        doy == (153 * (IF m > 2 THEN m - 3 ELSE m + 9) + 2) \div 5 + d - 1
    IN era * 146097 + yoe * 365 + yoe \div 4 - yoe \div 100 + doy
DateOf(ts) ==
    [day |-> DayNumber(FieldOf(ts, 1, 4), FieldOf(ts, 6, 7), FieldOf(ts, 9, 10)),
     ms |-> ((FieldOf(ts, 12, 13) * 60 + FieldOf(ts, 15, 16)) * 60 + FieldOf(ts, 18, 19)) * 1000
            + FieldOf(ts, 21, 23)]

\* Math.abs(logTime.getTime() - denialTime.getTime()); a difference of two days
\* or more is represented by one day.
DayMs == 24 * 60 * 60 * 1000
Abs(n) == IF n < 0 THEN 0 - n ELSE n
TimeDiff(a, b) ==
    IF a.day = b.day THEN Abs(a.ms - b.ms)
    ELSE IF a.day = b.day + 1 THEN DayMs + a.ms - b.ms
    ELSE IF b.day = a.day + 1 THEN DayMs + b.ms - a.ms
    ELSE DayMs

\* Line 27: timeDiff <= 5000.
ENRICH_WINDOW_MS == 5000
WithinWindow_Strict(timeDiff) == timeDiff < ENRICH_WINDOW_MS
WithinWindow(timeDiff) == timeDiff <= ENRICH_WINDOW_MS

\* The filter callback, lines 21-28.
Nearby(log, denial) ==
    IF ~TruthyText(log.timestamp) \/ ~TruthyText(log.iamResource) THEN FALSE
    ELSE /\ log.iamAction = denial.iamAction
         /\ WithinWindow(TimeDiff(DateOf(log.timestamp[1]), DateOf(denial.timestamp[1])))

\* The loop body, lines 16-35: a copy of the denial, its iamResource replaced
\* by that of the first nearby log.
EnrichOne(denial, all) ==
    IF TruthyText(denial.timestamp) /\ TruthyText(denial.iamAction)
    THEN LET nearbyResourceLogs == SelectSeq(all, LAMBDA log : Nearby(log, denial))
         IN IF Len(nearbyResourceLogs) > 0
            THEN [denial EXCEPT !.iamResource = nearbyResourceLogs[1].iamResource]
            ELSE denial
    ELSE denial
enrichWithResourceData(ds, all) == [i \in 1..Len(ds) |-> EnrichOne(ds[i], all)]

\* ------------------------------------------- deduplicatePermissions
\* A Map is the sequence of its [key, value] entries in insertion order.
HasKey_Never(map, key) == FALSE
HasKey(map, key) == \E k \in 1..Len(map) : map[k].key = key
PermissionKey(principal, action, resource) == principal \o "|" \o action \o "|" \o resource

\* Line 45.
Skipped(denial) == ~TruthyText(denial.iamPrincipal) \/ ~TruthyText(denial.iamAction)

\* The loop body, lines 45-56.
AddPermission(map, denial) ==
    LET resource == IF TruthyText(denial.iamResource) THEN denial.iamResource[1] ELSE "*"
        key == PermissionKey(denial.iamPrincipal[1], denial.iamAction[1], resource)
    IN IF Skipped(denial) \/ HasKey(map, key) THEN map
       ELSE Append(map, [key |-> key,
                         value |-> [principal |-> denial.iamPrincipal[1],
                                    action |-> denial.iamAction[1],
                                    resource |-> resource]])
RECURSIVE DedupeFrom(_, _, _)
DedupeFrom(ds, i, map) ==
    IF i > Len(ds) THEN map ELSE DedupeFrom(ds, i + 1, AddPermission(map, ds[i]))
deduplicatePermissions(ds) == DedupeFrom(ds, 1, <<>>)

\* ---------------------------------------------------- generateIamPolicy
\* Array.prototype.sort without a comparator: by UTF-16 code units, here the
\* characters of action names in code order.
AsciiChars == "*-." \o DigitChars \o ":" \o UpperChars \o "_" \o LowerChars \o "|"
CodeOf(c) == CHOOSE k \in 1..Len(AsciiChars) : At(AsciiChars, k) = c
RECURSIVE StrLess(_, _)
StrLess(a, b) ==
    IF b = "" THEN FALSE
    ELSE IF a = "" THEN TRUE
    ELSE IF At(a, 1) = At(b, 1) THEN StrLess(From(a, 2), From(b, 2))
    ELSE CodeOf(At(a, 1)) < CodeOf(At(b, 1))
RECURSIVE Sorted(_)
Sorted(S) ==
    IF S = {} THEN <<>>
    ELSE LET least == CHOOSE x \in S : \A y \in S \ {x} : StrLess(x, y)
         IN <<least>> \o Sorted(S \ {least})

\* map.get(key).add(action), after map.set(key, new Set()) for a new key.
AddAction_AlwaysSet(map, key, action) == Append(map, [key |-> key, value |-> {action}])
AddAction(map, key, action) ==
    IF HasKey(map, key)
    THEN [k \in 1..Len(map) |->
            IF map[k].key = key THEN [map[k] EXCEPT !.value = @ \cup {action}] ELSE map[k]]
    ELSE Append(map, [key |-> key, value |-> {action}])

\* iam-policy.logic as the analyzer imports it: lines 65-71, one Set of actions
\* per resource.
RECURSIVE ResourcesFrom(_, _, _)
ResourcesFrom(perms, k, map) ==
    IF k > Len(perms) THEN map
    ELSE LET permission == perms[k].value
             resource == IF permission.resource # "" THEN permission.resource ELSE "*"
         IN ResourcesFrom(perms, k + 1, AddAction(map, resource, permission.action))

\* Lines 73-83.
Statement(resourceEntry, i) ==
    [Sid |-> "GeneratedStatement" \o ToString(i), Effect |-> "Allow",
     Action |-> Sorted(resourceEntry.value), Resource |-> resourceEntry.key]
generateIamPolicy(perms) ==
    LET resourcesToActionMap == ResourcesFrom(perms, 1, <<>>)
    IN [Version |-> "2012-10-17",
        Statement |-> [i \in 1..Len(resourcesToActionMap) |->
                         Statement(resourcesToActionMap[i], i)]]

\* The other generateIamPolicy of the repository: one Map of resources per
\* principal, and a Principal in every statement.
AddResourceAction(map, principal, resource, action) ==
    IF HasKey(map, principal)
    THEN [k \in 1..Len(map) |->
            IF map[k].key = principal
            THEN [map[k] EXCEPT !.value = AddAction(@, resource, action)]
            ELSE map[k]]
    ELSE Append(map, [key |-> principal, value |-> AddAction(<<>>, resource, action)])
RECURSIVE PrincipalsFrom(_, _, _)
PrincipalsFrom(perms, k, map) ==
    IF k > Len(perms) THEN map
    ELSE LET permission == perms[k].value
         IN PrincipalsFrom(perms, k + 1,
                AddResourceAction(map, permission.principal, permission.resource,
                                  permission.action))
PrincipalStatement(principal, resourceEntry, statementId) ==
    [Sid |-> "AllowPrincipal" \o ToString(statementId), Effect |-> "Allow",
     Principal |-> [Service |-> principal],
     Action |-> Sorted(resourceEntry.value), Resource |-> resourceEntry.key]
RECURSIVE StatementsFrom(_, _, _, _)
StatementsFrom(principalMap, p, r, statements) ==
    IF p > Len(principalMap) THEN statements
    ELSE IF r > Len(principalMap[p].value)
    THEN StatementsFrom(principalMap, p + 1, 1, statements)
    ELSE StatementsFrom(principalMap, p, r + 1,
            Append(statements,
                   PrincipalStatement(principalMap[p].key, principalMap[p].value[r],
                                      Len(statements) + 1)))
generateIamPolicyPerPrincipal(perms) ==
    [Version |-> "2012-10-17",
     Statement |-> StatementsFrom(PrincipalsFrom(perms, 1, <<>>), 1, 1, <<>>)]

\* ------------------------------------------- iam-policy.logic: inputs
IamEntry(timestamp, iamPrincipal, iamAction, iamResource) ==
    [timestamp |-> timestamp, iamPrincipal |-> iamPrincipal, iamAction |-> iamAction,
     iamResource |-> iamResource]

\* Denials: with and without a resource, of two principals, and entries that
\* lack a timestamp, a principal or an action.
DenialTime == "2025-07-23T10:58:58.710"
DenialSamples ==
    {IamEntry(Defined(DenialTime), Defined("lambda.amazonaws.com"), Defined("s3:GetObject"),
              Undefined),
     IamEntry(Defined(DenialTime), Defined("lambda.amazonaws.com"), Defined("s3:PutObject"),
              Defined("arn:aws:s3:::my-bucket/*")),
     IamEntry(Defined(DenialTime), Defined("ecs-tasks.amazonaws.com"), Defined("s3:GetObject"),
              Undefined),
     IamEntry(Defined("2025-07-23T11:30:00.000"), Defined("lambda.amazonaws.com"),
              Defined("s3:DeleteObject"), Undefined),
     IamEntry(Undefined, Defined(""), Defined("sqs:SendMessage"), Undefined),
     IamEntry(Defined(DenialTime), Defined("root"), Undefined, Undefined)}

\* Resource-bearing log entries for s3:GetObject: 5000 ms and 5001 ms after the
\* denials, 1 s before them with an empty resource, a day later, 1 s after; and
\* one for s3:PutObject at the time of the denials.
ResourceLogSamples ==
    {IamEntry(Defined("2025-07-23T10:59:03.710"), Undefined, Defined("s3:GetObject"),
              Defined("arn:aws:s3:::b1")),
     IamEntry(Defined("2025-07-23T10:59:03.711"), Undefined, Defined("s3:GetObject"),
              Defined("arn:aws:s3:::b2")),
     IamEntry(Defined("2025-07-23T10:58:57.710"), Undefined, Defined("s3:GetObject"),
              Defined("")),
     IamEntry(Defined("2025-07-24T10:58:58.710"), Undefined, Defined("s3:GetObject"),
              Defined("arn:aws:s3:::b3")),
     IamEntry(Defined("2025-07-23T10:58:59.710"), Undefined, Defined("s3:GetObject"),
              Defined("arn:aws:s3:::b4")),
     IamEntry(Defined(DenialTime), Undefined, Defined("s3:PutObject"),
              Defined("arn:aws:s3:::b5"))}

IamInit ==
    /\ denials \in {<<>>} \cup SeqsUpTo(DenialSamples, MaxDenials)
    /\ allLogs \in {<<>>} \cup SeqsUpTo(ResourceLogSamples, MaxAllLogs)
    /\ enriched = <<>> /\ permissions = <<>> /\ permissionsAgain = <<>>
    /\ policy = NoPolicy /\ principalPolicy = NoPolicy /\ iamPc = "enrich"

\* The calls of the analyzer, in its order: enrich, deduplicate, generate; then
\* a second deduplicatePermissions on the same list and the per-principal
\* generateIamPolicy on the same Map.
EnrichWithResourceData ==
    /\ iamPc = "enrich"
    /\ enriched' = enrichWithResourceData(denials, allLogs)
    /\ iamPc' = "deduplicate"
    /\ UNCHANGED <<rcVars, toolVars, logVars, parseVars, analysisVars, denials, allLogs,
                   permissions, permissionsAgain, policy, principalPolicy>>

DeduplicatePermissions ==
    /\ iamPc = "deduplicate"
    /\ permissions' = deduplicatePermissions(enriched)
    /\ iamPc' = "generate"
    /\ UNCHANGED <<rcVars, toolVars, logVars, parseVars, analysisVars, denials, allLogs, enriched,
                   permissionsAgain, policy, principalPolicy>>

GenerateIamPolicy ==
    /\ iamPc = "generate"
    /\ policy' = generateIamPolicy(permissions)
    /\ iamPc' = "deduplicateAgain"
    /\ UNCHANGED <<rcVars, toolVars, logVars, parseVars, analysisVars, denials, allLogs, enriched,
                   permissions, permissionsAgain, principalPolicy>>

DeduplicateAgain ==
    /\ iamPc = "deduplicateAgain"
    /\ permissionsAgain' = deduplicatePermissions(enriched)
    /\ iamPc' = "generatePerPrincipal"
    /\ UNCHANGED <<rcVars, toolVars, logVars, parseVars, analysisVars, denials, allLogs, enriched,
                   permissions, policy, principalPolicy>>

GenerateIamPolicyPerPrincipal ==
    /\ iamPc = "generatePerPrincipal"
    /\ principalPolicy' = generateIamPolicyPerPrincipal(permissions)
    /\ iamPc' = "done"
    /\ UNCHANGED <<rcVars, toolVars, logVars, parseVars, analysisVars, denials, allLogs, enriched,
                   permissions, permissionsAgain, policy>>

IamNext ==
    \/ EnrichWithResourceData
    \/ DeduplicatePermissions
    \/ GenerateIamPolicy
    \/ DeduplicateAgain
    \/ GenerateIamPolicyPerPrincipal
IamSpecInit == RcIdle /\ LogIdle /\ ParseIdle /\ AnalysisIdle /\ IamInit /\ ToolIdle
IamSpec == IamSpecInit /\ [][IamNext]_vars

\* ------------------------------------------------ handleAnalyzePolicies
\* The handler's log entries, as parseLogLine makes them: a denial line sets
\* isIamDenial, iamPrincipal and iamAction; a line with "Action '...' for '...'"
\* sets iamAction and iamResource; a line may be both.
PipelineEntry(isIamDenial, timestamp, iamPrincipal, iamAction, iamResource) ==
    [isIamDenial |-> isIamDenial, timestamp |-> timestamp, iamPrincipal |-> iamPrincipal,
     iamAction |-> iamAction, iamResource |-> iamResource]
PipelineSamples ==
    {PipelineEntry(TRUE, Defined(DenialTime), Defined("lambda.amazonaws.com"),
                   Defined("s3:GetObject"), Undefined),
     PipelineEntry(TRUE, Defined(DenialTime), Defined("lambda.amazonaws.com"),
                   Defined("s3:PutObject"), Defined("arn:aws:s3:::my-bucket/*")),
     PipelineEntry(TRUE, Defined(DenialTime), Defined("dev|s3:Get"), Defined("s3:Put"),
                   Undefined),
     PipelineEntry(TRUE, Defined(DenialTime), Defined("dev"), Defined("s3:Get|s3:Put"),
                   Undefined),
     PipelineEntry(FALSE, Defined("2025-07-23T10:58:58.000"), Undefined,
                   Defined("s3:PutObject"), Defined("arn:aws:s3:::b5")),
     PipelineEntry(FALSE, Defined("2025-07-23T10:59:03.710"), Undefined,
                   Defined("s3:GetObject"), Defined("arn:aws:s3:::b1"))}

PipelineInit ==
    /\ allLogs \in {<<>>} \cup SeqsUpTo(PipelineSamples, MaxPipelineLogs)
    /\ denials = <<>> /\ enriched = <<>> /\ permissions = <<>> /\ permissionsAgain = <<>>
    /\ policy = NoPolicy /\ principalPolicy = NoPolicy /\ iamPc = "filter"

\* Lines 415-439 of the analyzer: the denials are the entries of the retrieved
\* logs with isIamDenial === true; without any the handler returns at once.
FilterDenials ==
    /\ iamPc = "filter"
    /\ denials' = SelectSeq(allLogs, LAMBDA log : log.isIamDenial = TRUE)
    /\ iamPc' = IF Len(denials') = 0 THEN "noDenials" ELSE "enrich"
    /\ UNCHANGED <<rcVars, toolVars, logVars, parseVars, analysisVars, allLogs, enriched,
                   permissions, permissionsAgain, policy, principalPolicy>>

\* Lines 441-443: enrich, deduplicate, generate.
PipelineNext ==
    \/ FilterDenials
    \/ EnrichWithResourceData
    \/ DeduplicatePermissions
    \/ GenerateIamPolicy
PipelineSpecInit == RcIdle /\ LogIdle /\ ParseIdle /\ AnalysisIdle /\ PipelineInit /\ ToolIdle
PipelineSpec == PipelineSpecInit /\ [][PipelineNext]_vars

\* --------------------------------------------- findLocalStackContainer
\* A container of docker.listContainers: its Id and its Names, which may be
\* missing; a name may be missing too.
Container(Id, Names) == [Id |-> Id, Names |-> Names]
ContainerSamples ==
    {Container("ls1", Defined(<<Defined("/localstack-main")>>)),
     Container("ls2", Defined(<<Defined("localstack-main")>>)),
     Container("dbl", Defined(<<Defined("//localstack-main")>>)),
     Container("other", Defined(<<Defined("/postgres"), Defined("/localstack-main-2")>>)),
     Container("alias", Defined(<<Undefined, Defined("/localstack-main")>>)),
     Container("anon", Undefined)}

CONTAINER_NAME == "localstack-main"
NotFoundMessage == "Could not find a running LocalStack container named 'localstack-main'."
DockerDownMessage == "connect ENOENT /var/run/docker.sock"

StripSlash_AllSlashes(n) ==
    IF n # Undefined /\ StartsAt(n[1], 1, "/") THEN Defined(From(n[1], RunEnd(n[1], 1, {"/"}))) ELSE n
\* const name = (n || "").startsWith("/") ? n.slice(1) : n
StripSlash(n) == IF n # Undefined /\ StartsAt(n[1], 1, "/") THEN Defined(From(n[1], 2)) ELSE n
\* (c.Names || []).some(n => name === "localstack-main")
OrEmpty(list) == IF list = Undefined THEN <<>> ELSE list[1]
HasContainerName(c) ==
    \E k \in 1..Len(OrEmpty(c.Names)) : StripSlash(OrEmpty(c.Names)[k]) = Defined(CONTAINER_NAME)
\* (running || []).find(...), then the id of the match or the throw
findLocalStackContainer(list) ==
    LET matches == {k \in 1..Len(OrEmpty(list)) : HasContainerName(OrEmpty(list)[k])}
    IN  IF matches # {}
        THEN ResolvedWith(OrEmpty(list)[Min(matches)].Id)
        ELSE RejectedWith(NotFoundMessage)

FindInit ==
    /\ running \in {Undefined, Defined(<<>>)}
                   \cup {Defined(l) : l \in SeqsUpTo(ContainerSamples, MaxContainers)}
    /\ findPc = "listing" /\ found = Pending

\* docker.listContainers resolves with the running containers: the search runs
\* to its end in the same turn.
ListContainersResolves ==
    /\ findPc = "listing"
    /\ found' = findLocalStackContainer(running)
    /\ findPc' = "done"
    /\ UNCHANGED <<rcVars, logVars, libVars, appVars, running, execVars>>

\* getDocker or docker.listContainers rejects: the rejection is not caught.
ListContainersRejects ==
    /\ findPc = "listing"
    /\ found' = RejectedWith(DockerDownMessage)
    /\ findPc' = "done"
    /\ UNCHANGED <<rcVars, logVars, libVars, appVars, running, execVars>>

FindNext == ListContainersResolves \/ ListContainersRejects
FindSpecInit ==
    /\ RcIdle /\ LogIdle /\ ParseIdle /\ AnalysisIdle /\ IamIdle
    /\ FindInit /\ ExecIdle /\ AwsIdle /\ DeployIdle
FindSpec == FindSpecInit /\ [][FindNext]_vars

\* -------------------------------------------------- executeInContainer
StdinSamples == {Undefined, Defined(""), Defined("{\"a\": 1}")}
ExecChunkSamples == {"ok\n", " \t", "usage: aws\r\n"}
CreateFailedMessage == "(HTTP code 404) no such container"
StartFailedMessage == "(HTTP code 500) exec start failed"
StreamErrorMessage == "read ECONNRESET"
InspectFailedMessage == "(HTTP code 404) no such exec instance"

\* What exec.inspect can resolve with: nothing, or an object whose ExitCode is a
\* number, null, or missing.
InspectObject(ExitCode) == [type |-> "object", ExitCode |-> ExitCode]
InspectSamples ==
    {JsUndefined, InspectObject(Num(0)), InspectObject(Num(2)), InspectObject(JsNull),
     InspectObject(JsUndefined)}

\* String.prototype.trim on text of several lines.
trimText(s) ==
    Once(s, LAMBDA t : SubSeq(t, RunEnd(t, 1, Whitespace \cup {"\n", "\r"}),
                              RunStart(t, Len(t), Whitespace \cup {"\n", "\r"})))
\* Buffer.concat(chunks).toString("utf8")
RECURSIVE ConcatChunks(_)
ConcatChunks(chunks) ==
    IF chunks = <<>> THEN "" ELSE Head(chunks) \o ConcatChunks(Tail(chunks))

\* inspect && inspect.ExitCode !== null ? inspect.ExitCode : 1
ExitCodeOf(v) == IF v.type = "object" /\ v.ExitCode.type # "null" THEN v.ExitCode ELSE Num(1)

\* The promise awaited before exec.inspect: the first of the stream's 'end' and
\* 'error' events settles it, later events change nothing.
StreamPromise ==
    IF streamEvents = <<>> THEN "pending"
    ELSE IF Head(streamEvents) = "end" THEN "resolved" ELSE "rejected"
StreamAwaited_NotAwaited == StreamPromise # "rejected"
StreamAwaited == StreamPromise = "resolved"

ExecInit == stdin \in StdinSamples /\ execPc = "creating" /\ ExecFresh

\* container.exec resolves with the exec instance, or rejects.
CreateExecResolves ==
    /\ execPc = "creating"
    /\ execPc' = "starting"
    /\ UNCHANGED <<rcVars, logVars, libVars, appVars, findVars, stdin, stdinWritten, streamEvents,
                   stdoutChunks, stderrChunks, inspectCalls, inspect, execResult>>
CreateExecRejects ==
    /\ execPc = "creating"
    /\ execPc' = "rejected"
    /\ execResult' = RejectedWith(CreateFailedMessage)
    /\ UNCHANGED <<rcVars, logVars, libVars, appVars, findVars, stdin, stdinWritten, streamEvents,
                   stdoutChunks, stderrChunks, inspectCalls, inspect>>

\* The callback of exec.start with an error: the call rejects.
StartFails ==
    /\ execPc = "starting"
    /\ execPc' = "rejected"
    /\ execResult' = RejectedWith(StartFailedMessage)
    /\ UNCHANGED <<rcVars, logVars, libVars, appVars, findVars, stdin, stdinWritten, streamEvents,
                   stdoutChunks, stderrChunks, inspectCalls, inspect>>
\* The callback of exec.start with the stream: a non-empty stdin is written and the
\* writable side ended, the 'data' handlers are added and the stream is awaited.
StartSucceeds ==
    /\ execPc = "starting"
    /\ stdinWritten' = IF stdin # Undefined /\ stdin # Defined("") THEN stdin ELSE Undefined
    /\ execPc' = "streaming"
    /\ UNCHANGED <<rcVars, logVars, libVars, appVars, findVars, stdin, streamEvents,
                   stdoutChunks, stderrChunks, inspectCalls, inspect, execResult>>

\* The demultiplexed stream delivers a chunk of the command's stdout or stderr.
StreamData ==
    /\ execPc = "streaming" /\ streamEvents = <<>>
    /\ Len(stdoutChunks) + Len(stderrChunks) < MaxExecChunks
    /\ \E chunk \in ExecChunkSamples :
        \/ stdoutChunks' = Append(stdoutChunks, chunk) /\ UNCHANGED stderrChunks
        \/ stderrChunks' = Append(stderrChunks, chunk) /\ UNCHANGED stdoutChunks
    /\ UNCHANGED <<rcVars, logVars, libVars, appVars, findVars, stdin, execPc, stdinWritten,
                   streamEvents, inspectCalls, inspect, execResult>>
\* The stream emits 'end': the command's output is complete.
StreamEnd ==
    /\ execPc = "streaming" /\ streamEvents = <<>>
    /\ streamEvents' = <<"end">>
    /\ UNCHANGED <<rcVars, logVars, libVars, appVars, findVars, stdin, execPc, stdinWritten,
                   stdoutChunks, stderrChunks, inspectCalls, inspect, execResult>>
\* The stream emits 'error', before or after its 'end'.
StreamError ==
    /\ execPc \in {"streaming", "inspecting"}
    /\ \A k \in 1..Len(streamEvents) : streamEvents[k] # "error"
    /\ streamEvents' = Append(streamEvents, "error")
    /\ UNCHANGED <<rcVars, logVars, libVars, appVars, findVars, stdin, execPc, stdinWritten,
                   stdoutChunks, stderrChunks, inspectCalls, inspect, execResult>>

\* The awaited promise rejected: so does the call.
StreamRejected ==
    /\ execPc = "streaming" /\ StreamPromise = "rejected"
    /\ execPc' = "rejected"
    /\ execResult' = RejectedWith(StreamErrorMessage)
    /\ UNCHANGED <<rcVars, logVars, libVars, appVars, findVars, stdin, stdinWritten, streamEvents,
                   stdoutChunks, stderrChunks, inspectCalls, inspect>>
\* The awaited promise resolved: exec.inspect is called.
CallInspect ==
    /\ execPc = "streaming" /\ StreamAwaited
    /\ inspectCalls' = Append(inspectCalls, streamEvents)
    /\ execPc' = "inspecting"
    /\ UNCHANGED <<rcVars, logVars, libVars, appVars, findVars, stdin, stdinWritten, streamEvents,
                   stdoutChunks, stderrChunks, inspect, execResult>>

\* exec.inspect resolves: the exit code is taken from it, the collected chunks
\* are joined and trimmed.
InspectResolves ==
    /\ execPc = "inspecting"
    /\ \E v \in InspectSamples :
        /\ inspect' = Defined(v)
        /\ execResult' = ResolvedWith([stdout |-> trimText(ConcatChunks(stdoutChunks)),
                                       stderr |-> trimText(ConcatChunks(stderrChunks)),
                                       exitCode |-> ExitCodeOf(v)])
    /\ execPc' = "resolved"
    /\ UNCHANGED <<rcVars, logVars, libVars, appVars, findVars, stdin, stdinWritten, streamEvents,
                   stdoutChunks, stderrChunks, inspectCalls>>
InspectRejects ==
    /\ execPc = "inspecting"
    /\ execPc' = "rejected"
    /\ execResult' = RejectedWith(InspectFailedMessage)
    /\ UNCHANGED <<rcVars, logVars, libVars, appVars, findVars, stdin, stdinWritten, streamEvents,
                   stdoutChunks, stderrChunks, inspectCalls, inspect>>

\* The steps that Docker and the event loop take whenever they can, and those
\* that only the command running in the container brings about.
ExecProgress ==
    \/ CreateExecResolves \/ CreateExecRejects \/ StartFails \/ StartSucceeds
    \/ StreamRejected \/ CallInspect \/ InspectResolves \/ InspectRejects
ExecNext ==
    \/ CreateExecResolves \/ CreateExecRejects \/ StartFails \/ StartSucceeds
    \/ StreamData \/ StreamEnd \/ StreamError
    \/ StreamRejected \/ CallInspect \/ InspectResolves \/ InspectRejects
ExecSpecInit ==
    /\ RcIdle /\ LogIdle /\ ParseIdle /\ AnalysisIdle /\ IamIdle
    /\ FindIdle /\ ExecInit /\ AwsIdle /\ DeployIdle
ExecSpec == ExecSpecInit /\ [][ExecNext]_vars
\* Docker answers every request and the event loop runs every continuation; the
\* command in the container need never end its output.
FairExecSpec == ExecSpec /\ WF_vars(ExecProgress)

\* --------------------------------------- localstack-aws-client: values
JsSpace == Whitespace \cup {"\n", "\r"}           \* \s
\* splitArgsRespectingQuotes: the loop's state after one more character and
\* after the characters of a text (those of its first half, then those of its
\* second half), and the arguments at the end of the input.
SplitStart == [args |-> <<>>, current |-> "", inSingle |-> FALSE, inDouble |-> FALSE]
SplitChar(st, ch) ==
    IF ch = "'" /\ ~st.inDouble THEN [st EXCEPT !.inSingle = ~@]
    ELSE IF ch = "\"" /\ ~st.inSingle THEN [st EXCEPT !.inDouble = ~@]
    ELSE IF ~st.inSingle /\ ~st.inDouble /\ ch \in JsSpace
    THEN IF Len(st.current) > 0
         THEN [st EXCEPT !.args = Append(@, st.current), !.current = ""]
         ELSE st
    ELSE [st EXCEPT !.current = @ \o ch]
RECURSIVE SplitOver(_, _)
SplitOver(state, text) ==
    Once2(state, text, LAMBDA st, t :
        IF t = "" THEN st
        ELSE IF Len(t) = 1 THEN SplitChar(st, t)
        ELSE SplitOver(SplitOver(st, SubSeq(t, 1, Len(t) \div 2)),
                       SubSeq(t, Len(t) \div 2 + 1, Len(t))))
splitArgsRespectingQuotes(input) ==
    Once(SplitOver(SplitStart, input), LAMBDA st :
        IF Len(st.current) > 0 THEN Append(st.args, st.current) ELSE st.args)

\* ResponseBuilder.error and ResponseBuilder.markdown.
ErrorResponse(title, details) ==
    [mark |-> "error",
     text |-> "**" \o title \o "**" \o (IF details # "" THEN "\n\n" \o details ELSE "")]
MarkdownResponse(content) == [mark |-> "none", text |-> content]

\* The two hints in stderr, matched without regard to case:
\* /The API action '([^']+)' for service '([^']+)' is either not available in your
\* current license plan or has not yet been emulated by LocalStack/i and
\* /The API for service '([^']+)' is either not included in your current license
\* plan or has not yet been emulated by LocalStack/i.
ActionLead == "the api action '"
ActionMid == "' for service '"
ActionTail ==
    "' is either not available in your current license plan or has not yet been emulated by localstack"
ServiceLead == "the api for service '"
ServiceTail ==
    "' is either not included in your current license plan or has not yet been emulated by localstack"
StartsAtNoCase(s, i, lit) ==
    /\ i + Len(lit) - 1 <= Len(s)
    /\ \A k \in 1..Len(lit) : lowerOf(At(s, i + k - 1)) = At(lit, k)
ActionHintAt(s, i) ==
    LET a == i + Len(ActionLead)
        b == RunEndNot(s, a, {"'"})
        c == b + Len(ActionMid)
        d == RunEndNot(s, c, {"'"})
    IN  /\ StartsAtNoCase(s, i, ActionLead) /\ b > a /\ StartsAtNoCase(s, b, ActionMid)
        /\ d > c /\ StartsAtNoCase(s, d, ActionTail)
ServiceHintAt(s, i) ==
    LET a == i + Len(ServiceLead)
        b == RunEndNot(s, a, {"'"})
    IN  StartsAtNoCase(s, i, ServiceLead) /\ b > a /\ StartsAtNoCase(s, b, ServiceTail)
\* The service named by the leftmost action hint.
HintedService(s) ==
    LET i == Min({k \in 1..Len(s) : ActionHintAt(s, k)})
        b == RunEndNot(s, i + Len(ActionLead), {"'"})
        c == b + Len(ActionMid)
    IN  Between(s, c, RunEndNot(s, c, {"'"}))

\* Lines 44-72: the response for a result of executeInContainer.
ExecResponse(res) ==
    IF res.exitCode = Num(0) THEN MarkdownResponse(res.stdout)
    ELSE IF \E k \in 1..Len(res.stderr) : ActionHintAt(res.stderr, k)
    THEN ErrorResponse("Service Not Implemented in LocalStack",
            "The requested API action may not be implemented. Check coverage: "
            \o "https://docs.localstack.cloud/references/coverage/coverage_"
            \o HintedService(res.stderr) \o "\n\n" \o res.stderr)
    ELSE IF \E k \in 1..Len(res.stderr) : ServiceHintAt(res.stderr, k)
    THEN ErrorResponse("Service Not Implemented in LocalStack",
            "The requested service may not be implemented. Check coverage: "
            \o "https://docs.localstack.cloud/references/coverage" \o "\n\n"
            \o res.stderr)
    ELSE ErrorResponse("Command Failed",
            IF res.stderr # "" THEN res.stderr ELSE "Unknown error")

\* ------------------------------------------------ sanitizeAwsCliCommand
Has(s, lit) == \E i \in 1..Len(s) : StartsAt(s, i, lit)
\* /\$\([^)]*\)/ and /\$\{[^}]*\}/
HasSubstitution(s, open, close) ==
    \E i \in 1..Len(s) : StartsAt(s, i, open) /\ At(s, RunEndNot(s, i + 2, {close})) = close
\* /\$\w+/
HasVariable(s) == \E i \in 1..Len(s) : At(s, i) = "$" /\ At(s, i + 1) \in WordChar
\* /eval\s*\(/ and the like
HasCall(s, name) ==
    \E i \in 1..Len(s) : StartsAt(s, i, name) /\ At(s, RunEnd(s, i + Len(name), JsSpace)) = "("

\* The character of command substitution, written here as the first character
\* of a two-character string.
Backtick == SubSeq("`'", 1, 1)
\* dangerousPatterns: the source of each pattern and whether it matches.
DangerousSources ==
    <<"\\|\\|", "&&", ";", "\\|", "&", Backtick, "\\$\\([^)]*\\)", "\\$\\{[^}]*\\}",
      ">", "<", ">>", "<<", "2>", "&>", "\\n", "\\r", "\\t", "\\$\\w+",
      "\\.\\.", "\\/\\.\\.", "eval\\s*\\(", "exec\\s*\\(", "system\\s*\\(", "shell_exec\\s*\\(">>
DangerousTests(s) ==
    <<Has(s, "||"), Has(s, "&&"), Has(s, ";"), Has(s, "|"), Has(s, "&"), Has(s, Backtick),
      HasSubstitution(s, "$(", ")"), HasSubstitution(s, "${", "}"),
      Has(s, ">"), Has(s, "<"), Has(s, ">>"), Has(s, "<<"), Has(s, "2>"), Has(s, "&>"),
      Has(s, "\n"), Has(s, "\r"), Has(s, "\t"), HasVariable(s),
      Has(s, ".."), Has(s, "/.."),
      HasCall(s, "eval"), HasCall(s, "exec"), HasCall(s, "system"), HasCall(s, "shell_exec")>>

\* validStartPatterns: /^[a-z][a-z0-9-]*\s+/, /^help\s*$/, /^configure\s+/, /^version\s*$/
ServiceNameChar == CharsOf(LowerChars) \cup Digit \cup {"-"}
hasValidStart(s) ==
    \/ At(s, 1) \in CharsOf(LowerChars) /\ At(s, RunEnd(s, 2, ServiceNameChar)) \in JsSpace
    \/ StartsAt(s, 1, "help") /\ RunEnd(s, 5, JsSpace) = Len(s) + 1
    \/ StartsAt(s, 1, "configure") /\ At(s, 10) \in JsSpace
    \/ StartsAt(s, 1, "version") /\ RunEnd(s, 8, JsSpace) = Len(s) + 1

suspiciousCommands ==
    <<"rm ", "del ", "format ", "fdisk ", "mkfs ", "dd ", "shred ",
      "wget ", "curl ", "nc ", "netcat ", "telnet ", "ssh ", "scp ", "rsync ",
      "chmod ", "chown ", "sudo ", "su ", "passwd ", "useradd ", "usermod ",
      "crontab ", "at ", "systemctl ", "service ", "init ", "kill ", "killall ",
      "pkill ", "xkill ", "reboot ", "shutdown ", "halt ", "poweroff ">>

\* The outcome of a call that returns a value or throws an Error.
ReturnedValue(value) == [ok |-> TRUE, value |-> value]
ThrownError(message) == [ok |-> FALSE, message |-> message]

FirstTrue(flags) ==
    IF \E k \in 1..Len(flags) : flags[k]
    THEN Min({k \in 1..Len(flags) : flags[k]}) ELSE 0
sanitizeAwsCliCommand_AcceptAll(rawCommand) == ReturnedValue(trimText(rawCommand))
sanitizeAwsCliCommand(rawCommand) ==
    Once(trimText(rawCommand), LAMBDA command :
        IF command = "" THEN ThrownError("Command cannot be empty.")
        ELSE IF ~hasValidStart(command)
        THEN ThrownError("Command must start with a valid AWS CLI service or command.")
        ELSE Once(FirstTrue(DangerousTests(command)), LAMBDA d :
            IF d # 0
            THEN ThrownError("Command contains forbidden pattern: " \o DangerousSources[d])
            ELSE Once(toLowerCase(command), LAMBDA lowerCommand :
                Once(FirstTrue([k \in 1..Len(suspiciousCommands) |->
                                    Has(lowerCommand, suspiciousCommands[k])]), LAMBDA c :
                    IF c # 0
                    THEN ThrownError("Command contains potentially dangerous operation: "
                                \o trimText(suspiciousCommands[c]))
                    ELSE ReturnedValue(command)))))

\* ------------------------------------------------ localstack-aws-client
\* The commands given to the tool: the schema has trimmed them and refused "".
AwsCommandSamples ==
    {"s3 ls", "help", "s3api list-buckets --query \"Buckets[].Name\"",
     "sns publish --message 'a  b' --topic-arn t",
     "s3 ls; rm -rf /", "s3 ls | grep bucket", "s3 ls &", "s3 ls " \o Backtick \o "whoami" \o Backtick,
     "s3 ls > file.txt", "s3 ls < input.txt", "s3 ls $(whoami)", "s3 ls $HOME",
     "s3 ls\ns3 mb s3://b", "; s3 ls", "S3 ls", "s3", "s3 cp a ../b",
     "s3 rm s3://bucket/key", "ec2 describe-instances --output text"}
ExecResult(out, err, exitCode) ==
    [stdout |-> out, stderr |-> err, exitCode |-> exitCode]
AwsExecOutcomes ==
    {ResolvedWith(ExecResult("2025-01-01 bucket", "", Num(0))),
     ResolvedWith(ExecResult("", "", Num(0))),
     ResolvedWith(ExecResult("", "An error occurred (NoSuchBucket)", Num(254))),
     ResolvedWith(ExecResult("", "", Num(1))),
     ResolvedWith(ExecResult("", "", JsUndefined)),
     ResolvedWith(ExecResult("", "The API action 'CreateFoo' for service 'foo' is either not available in your current license plan or has not yet been emulated by LocalStack", Num(255))),
     ResolvedWith(ExecResult("", "the api for service 'bar' is either not included in your current license plan or has not yet been emulated by LocalStack.", Num(255))),
     RejectedWith(StreamErrorMessage)}
NotRunningResponse ==
    ErrorResponse("LocalStack Not Running",
        "LocalStack is not running. Please start LocalStack (e.g., 'localstack start') and try again.")

AwsInit == awsCommand \in AwsCommandSamples /\ awsPc = "preflight" /\ AwsFresh

\* runPreflights([requireLocalStackRunning()]) resolves: getLocalStackStatus
\* catches every error, so the preflight cannot reject. Without LocalStack the
\* tool returns the response of the preflight, otherwise it looks for the container.
AwsPreflight ==
    /\ awsPc = "preflight"
    /\ \E isRunning \in BOOLEAN :
        IF isRunning
        THEN /\ awsSteps' = <<"preflight passed", "find">>
             /\ awsPc' = "find"
             /\ UNCHANGED awsResponse
        ELSE /\ awsSteps' = <<"preflight failed">>
             /\ awsPc' = "returned"
             /\ awsResponse' = Defined(NotRunningResponse)
    /\ UNCHANGED <<rcVars, logVars, libVars, findVars, execVars, deployVars, awsCommand, awsCmd>>

\* findLocalStackContainer rejects: the catch block builds the response.
AwsFindRejects ==
    /\ awsPc = "find"
    /\ \E message \in {NotFoundMessage, DockerDownMessage} :
        awsResponse' = Defined(ErrorResponse("Execution Error", message))
    /\ awsSteps' = Append(awsSteps, "find failed")
    /\ awsPc' = "returned"
    /\ UNCHANGED <<rcVars, logVars, libVars, findVars, execVars, deployVars, awsCommand, awsCmd>>

\* findLocalStackContainer resolves: the command is sanitized, and split and
\* given to executeInContainer if the sanitizer returned.
AwsFindResolves ==
    /\ awsPc = "find"
    /\ \E sanitized \in {sanitizeAwsCliCommand(awsCommand)} :
           IF sanitized.ok
           THEN /\ awsCmd' = Defined(<<"awslocal">> \o splitArgsRespectingQuotes(sanitized.value))
                /\ awsSteps' = awsSteps \o <<"found", "sanitize passed", "exec">>
                /\ awsPc' = "exec"
                /\ UNCHANGED awsResponse
           ELSE /\ awsResponse' = Defined(ErrorResponse("Execution Error", sanitized.message))
                /\ awsSteps' = awsSteps \o <<"found", "sanitize failed">>
                /\ awsPc' = "returned"
                /\ UNCHANGED awsCmd
    /\ UNCHANGED <<rcVars, logVars, libVars, findVars, execVars, deployVars, awsCommand>>

\* executeInContainer settles: a result is turned into the response, a rejection
\* goes to the catch block.
AwsExecSettles ==
    /\ awsPc = "exec"
    /\ \E outcome \in AwsExecOutcomes :
        awsResponse' = Defined(IF outcome.how = "resolved" THEN ExecResponse(outcome.value)
                               ELSE ErrorResponse("Execution Error", outcome.message))
    /\ awsSteps' = Append(awsSteps, "exec settled")
    /\ awsPc' = "returned"
    /\ UNCHANGED <<rcVars, logVars, libVars, findVars, execVars, deployVars, awsCommand, awsCmd>>

AwsNext == AwsPreflight \/ AwsFindRejects \/ AwsFindResolves \/ AwsExecSettles
AwsSpecInit ==
    /\ RcIdle /\ LogIdle /\ ParseIdle /\ AnalysisIdle /\ IamIdle
    /\ DockerIdle /\ AwsInit /\ DeployIdle
AwsSpec == AwsSpecInit /\ [][AwsNext]_vars

\* ----------------------- executeTerraformCommands, executeCdkCommands
\* What runCommand returned for one command: stdout, stderr, and error when
\* the command did not end cleanly.
DeployResultSamples ==
    {[stdout |-> o, stderr |-> e, error |-> x] :
        o \in {"", " \n", "{}"}, e \in {"", "warning"},
        x \in {Undefined, Defined("Command failed with exit code 1")}}

\* An event of the list: its type, the command it reports and, for the error
\* event, its title.
HeaderEvent(step) == [type |-> "header", step |-> step]
OutputEvent(step) == [type |-> "output", step |-> step]
WarningEvent(step) == [type |-> "warning", step |-> step]
ErrorEvent(step, title) == [type |-> "error", step |-> step, title |-> title]
SuccessEvent == [type |-> "success"]
baseCommand == IF projectType = "terraform" THEN "tflocal" ELSE "cdklocal"
ErrorTitle(step) == "Error during " \o Backtick \o baseCommand \o " " \o step \o Backtick

\* if (res.error)
HasError_Never(res) == FALSE
HasError(res) == res.error # Undefined
\* The events pushed when a command returns: its output, and its stderr, if it
\* is not empty, as a warning.
Reported(step, res) ==
    <<OutputEvent(step)>> \o (IF res.stderr # "" THEN <<WarningEvent(step)>> ELSE <<>>)

DeployInit ==
    /\ projectType \in {"terraform", "cdk"} /\ deployAction \in {"deploy", "destroy"}
    /\ deployPc = "called" /\ DeployFresh

\* The call up to its first await: the header and the first command.
DeployStart ==
    /\ deployPc = "called"
    /\ LET first == IF deployAction = "destroy" THEN "destroy"
                    ELSE IF projectType = "terraform" THEN "init" ELSE "bootstrap"
       IN  /\ deployEvents' = <<HeaderEvent(first)>>
           /\ deployCommands' = <<first>>
           /\ deployPc' = first
    /\ UNCHANGED <<rcVars, logVars, libVars, findVars, execVars, awsVars,
                   projectType, deployAction, deployResults>>

\* A command other than the last of its run returns: with an error the run
\* ends with the error event, otherwise the next command is started.
StepReturns(step, next) ==
    /\ deployPc = step
    /\ \E res \in DeployResultSamples :
        /\ deployResults' = Append(deployResults, [step |-> step, res |-> res])
        /\ IF HasError(res)
           THEN /\ deployEvents' = deployEvents \o Reported(step, res)
                                   \o <<ErrorEvent(step, ErrorTitle(step))>>
                /\ deployPc' = "returned"
                /\ UNCHANGED deployCommands
           ELSE /\ deployEvents' = deployEvents \o Reported(step, res)
                                   \o (IF next = "output" THEN <<>> ELSE <<HeaderEvent(next)>>)
                /\ deployCommands' = Append(deployCommands, next)
                /\ deployPc' = next
    /\ UNCHANGED <<rcVars, logVars, libVars, findVars, execVars, awsVars,
                   projectType, deployAction>>
TerraformInitReturns == projectType = "terraform" /\ StepReturns("init", "apply")
TerraformApplyReturns == projectType = "terraform" /\ StepReturns("apply", "output")
CdkBootstrapReturns == projectType = "cdk" /\ StepReturns("bootstrap", "deploy")

\* tflocal output -json returns: its outputs are reported if it printed any,
\* its error is not looked at, and the run ends with the success event.
TerraformOutputReturns ==
    /\ projectType = "terraform" /\ deployPc = "output"
    /\ \E res \in DeployResultSamples :
        /\ deployResults' = Append(deployResults, [step |-> "output", res |-> res])
        /\ deployEvents' = deployEvents
              \o (IF trimText(res.stdout) # "" THEN <<OutputEvent("output")>> ELSE <<>>)
              \o <<SuccessEvent>>
    /\ deployPc' = "returned"
    /\ UNCHANGED <<rcVars, logVars, libVars, findVars, execVars, awsVars,
                   projectType, deployAction, deployCommands>>

\* cdklocal deploy returns: the outputs parsed from its stdout, if there are
\* any, are reported before the error is looked at.
CdkDeployReturns ==
    /\ projectType = "cdk" /\ deployPc = "deploy"
    /\ \E res \in DeployResultSamples, parsedOutputs \in BOOLEAN :
        /\ deployResults' = Append(deployResults, [step |-> "deploy", res |-> res])
        /\ deployEvents' = deployEvents \o Reported("deploy", res)
              \o (IF parsedOutputs THEN <<OutputEvent("deploy outputs")>> ELSE <<>>)
              \o (IF HasError(res) THEN <<ErrorEvent("deploy", ErrorTitle("deploy"))>>
                  ELSE <<SuccessEvent>>)
    /\ deployPc' = "returned"
    /\ UNCHANGED <<rcVars, logVars, libVars, findVars, execVars, awsVars,
                   projectType, deployAction, deployCommands>>

\* tflocal destroy or cdklocal destroy returns.
DestroyReturns ==
    /\ deployPc = "destroy"
    /\ \E res \in DeployResultSamples :
        /\ deployResults' = Append(deployResults, [step |-> "destroy", res |-> res])
        /\ deployEvents' = deployEvents \o Reported("destroy", res)
              \o (IF HasError(res) THEN <<ErrorEvent("destroy", ErrorTitle("destroy"))>>
                  ELSE <<SuccessEvent>>)
    /\ deployPc' = "returned"
    /\ UNCHANGED <<rcVars, logVars, libVars, findVars, execVars, awsVars,
                   projectType, deployAction, deployCommands>>

DeployNext ==
    \/ DeployStart
    \/ TerraformInitReturns \/ TerraformApplyReturns \/ TerraformOutputReturns
    \/ CdkBootstrapReturns \/ CdkDeployReturns
    \/ DestroyReturns
DeploySpecInit ==
    /\ RcIdle /\ LogIdle /\ ParseIdle /\ AnalysisIdle /\ IamIdle
    /\ DockerIdle /\ AwsIdle /\ DeployInit
DeploySpec == DeploySpecInit /\ [][DeployNext]_vars

\* ---------------------------------------------------------------- claims
Resolved == promise = "resolved"
StdoutOver == outBytes > maxBuffer
StderrOver == errBytes > maxBuffer
KillAttempted == Len(killLog) > 0
SigkillAttempted == \E i \in 1..Len(killLog) : killLog[i].sig = "SIGKILL"
Failed ==
    \/ timedOut \/ bufferExceeded \/ child = "failed"
    \/ (child \in {"exited", "signaled"} /\ childCode # Code(0))

\* C1: runCommand never throws and its promise is never rejected; a spawn
\* failure, a timeout, a buffer overflow and a non-zero exit each surface as the
\* error field of the resolved CommandResult; resolve is called at most once, and
\* only by the 'close' handler (the child has ended by then).
C1_NeverRejects ==
    /\ promise # "rejected"
    /\ resolveCount <= 1
    /\ resolveCount = 1 => (Resolved /\ child \in {"failed", "exited", "signaled"})
    /\ (Resolved /\ Failed) => result.error # NoError

\* C2: once the timeout timer has fired the call eventually resolves, with an
\* error mentioning "timed out", whatever the child does.  Stated for the runs
\* in which the OS lets the runner signal the child and no stream overflowed.
C2_TimeoutResolves ==
    (timedOut /\ signalable /\ ~bufferExceeded)
        ~> (Resolved /\ result.error.kind = "timeout")

\* C3: if the child has still not exited when a grace timer fires, a SIGKILL is
\* sent to it.
C3_Escalation == (graceDone /\ child = "alive") => SigkillAttempted

\* C4: once a stream's byte count exceeds maxBuffer the buffer-exceeded flag is set
\* and killProcess has called child.kill, and from then on no chunk changes the
\* captured stdout, stderr, the byte counters or the number of onData calls.
C4_OverflowSuppresses ==
    /\ []((StdoutOver \/ StderrOver) => (bufferExceeded /\ KillAttempted))
    /\ [][bufferExceeded =>
            UNCHANGED <<stdout, stderr, outBytes, errBytes, onDataCalls>>]_vars

\* A chunk arrived after the overflow and was dropped.
C4_Witness ==
    /\ bufferExceeded /\ onData /\ promise = "pending"
    /\ onDataCalls < MaxChunks - chunksLeft

\* C5: when stdout exceeds maxBuffer the call resolves with the stdout maxBuffer
\* error (naming the limit) and a non-null exit code.  Stated for the runs in
\* which the OS lets the runner signal the child.
C5_OverflowResolves ==
    (StdoutOver /\ signalable)
        ~> (/\ Resolved
            /\ result.error = BufferError("stdout", maxBuffer)
            /\ result.exitCode # NullCode)

\* C6 as stated: whenever the timer fired before 'close', the resolved error is
\* the timeout error, whatever else happened in the run.
C6_AlwaysTimeoutError ==
    (Resolved /\ timedOut) => result.error = TimeoutError(timeout)

\* C6: whenever the timer fired before 'close', the resolved error is never
\* absent and never the generic exit-code error; it is the timeout error unless a
\* stream had exceeded maxBuffer before the timer fired or an 'error' event was
\* emitted when or after the timer fired.
C6_TimeoutPrecedence ==
    (Resolved /\ timedOut) =>
        /\ result.error.kind \notin {"none", "exit"}
        /\ (~bufferExceeded /\ ~errAfterTimer) => result.error = TimeoutError(timeout)

\* The timer fired in a run that had captured output and ended with a code.
C6_Witness ==
    /\ Resolved /\ timedOut /\ result.stdout # <<>>
    /\ result.exitCode = Code(1) /\ result.error = TimeoutError(timeout)

\* t is s without its leading and trailing white space.
IsTrimOf(t, s) ==
    /\ \E i \in 1..(Len(s) + 1) : \E j \in 0..Len(s) :
          /\ t = SubSeq(s, i, j)
          /\ \A k \in 1..Len(s) : (k < i \/ k > j) => IsSpace(s[k])
    /\ t # <<>> => (~IsSpace(t[1]) /\ ~IsSpace(t[Len(t)]))

IsExitError(e, code, err) ==
    /\ e.kind = "exit" /\ e.code = code /\ IsTrimOf(e.text, err)

\* C7 as stated: a non-zero exit code without timeout, overflow or spawn error
\* gives the exit-code error with the trimmed stderr; a spawn error is always
\* reported unchanged.
C7_SpawnErrorAlwaysKept ==
    Resolved =>
        /\ (~timedOut /\ ~bufferExceeded /\ child # "failed"
                /\ result.exitCode # Code(0))
              => IsExitError(result.error, result.exitCode, result.stderr)
        /\ child = "failed" => result.error = SpawnError

\* C7: the same, the spawn error being reported unchanged when the timeout timer
\* did not fire between the 'error' event and 'close'.
C7_ExitCodeError ==
    Resolved =>
        /\ (~timedOut /\ ~bufferExceeded /\ child # "failed"
                /\ result.exitCode # Code(0))
              => IsExitError(result.error, result.exitCode, result.stderr)
        /\ (child = "failed" /\ ~timedOut) => result.error = SpawnError

\* A failed run whose stderr had white space to trim.
C7_Witness ==
    /\ Resolved /\ result.error.kind = "exit" /\ result.exitCode = Code(1)
    /\ result.error.text # result.stderr /\ result.error.text # <<>>

\* A resolved CommandResult has the shape retrieveLogs is checked on.
ResolvedShape == Resolved => ResultShapeOK(result)

LogsDone == logsPc = "done"
CmdError == cmd.value.error

\* C8: every failure of the log command is reported as success = false with the
\* message of its cause: timed out, binary missing or command failed, other.
C8_FailuresReported ==
    LogsDone =>
        /\ (cmd.how = "resolved" /\ CmdError.kind = "timeout")
              => logsResult = Failure("timedOut", <<>>)
        /\ (cmd.how = "resolved" /\ CmdError.kind \in {"spawn", "exit"})
              => logsResult = Failure("install", <<>>)
        /\ (cmd.how = "rejected" \/ CmdError.kind = "kill")
              => (~logsResult.success /\ logsResult.errorMessage.kind = "failed")

\* C9: empty stdout with non-empty stderr gives success = false, no logs,
\* totalLines = 0 and a message carrying that stderr.
C9_StderrOnlyFails ==
    (LogsDone /\ cmd.how = "resolved"
        /\ cmd.value.stdout = <<>> /\ cmd.value.stderr # <<>>) =>
        /\ ~logsResult.success
        /\ logsResult.logs = <<>>
        /\ logsResult.totalLines = 0
        /\ logsResult.errorMessage.kind = "failed"
        /\ logsResult.errorMessage.detail = cmd.value.stderr

\* The command ended with exit code 0 and wrote to stderr only.
C9_Witness ==
    /\ LogsDone /\ cmd.how = "resolved" /\ CmdError = NoError
    /\ cmd.value.stdout = <<>> /\ cmd.value.stderr = <<"e">>
    /\ ~logsResult.success

\* The lines of a text, as pairs <<first, last>> of positions: the maximal runs
\* without a newline (last = first - 1 for an empty line).
LineSpans(t) ==
    {sp \in (1..(Len(t) + 1)) \X (0..Len(t)) :
        /\ sp[2] >= sp[1] - 1
        /\ sp[1] = 1 \/ t[sp[1] - 1] = "\n"
        /\ sp[2] = Len(t) \/ t[sp[2] + 1] = "\n"
        /\ \A k \in sp[1]..sp[2] : t[k] # "\n"}
SpanBlank(t, sp) == \A k \in sp[1]..sp[2] : t[k] = " "
SameLetter(c, d) ==
    \/ c = d
    \/ {c, d} = {"a", "A"}
    \/ {c, d} = {"b", "B"}
SpanHas(t, sp, f) ==
    \E p \in sp[1]..(sp[2] + 1) :
        /\ p + Len(f) - 1 <= sp[2]
        /\ \A q \in 1..Len(f) : SameLetter(t[p + q - 1], f[q])
FilterGiven == filter.given /\ filter.text # <<>>
Returned(t) ==
    {sp \in LineSpans(t) :
        ~SpanBlank(t, sp) /\ (FilterGiven => SpanHas(t, sp, filter.text))}

\* C10: on success there is one entry per non-blank stdout line that contains
\* the filter case-insensitively (every non-blank line without a filter), in the
\* order of the source; totalLines counts the non-blank lines, filteredLines the
\* entries when a (non-empty) filter is given, and is unset otherwise.
C10_FilteredEntries ==
    (LogsDone /\ logsResult.success) =>
        LET t == cmd.value.stdout
            kept == Returned(t)
            Rank(sp) == 1 + Cardinality({o \in kept : o[1] < sp[1]})
        IN /\ Len(logsResult.logs) = Cardinality(kept)
           /\ \A sp \in kept :
                 logsResult.logs[Rank(sp)].fullLine = SubSeq(t, sp[1], sp[2])
           /\ logsResult.totalLines =
                 Cardinality({sp \in LineSpans(t) : ~SpanBlank(t, sp)})
           /\ logsResult.filteredLines =
                 IF FilterGiven THEN Defined(Len(logsResult.logs)) ELSE Undefined

\* A line was kept by a match in the other case and another line was dropped.
C10_Witness ==
    /\ LogsDone /\ logsResult.success /\ FilterGiven
    /\ logsResult.totalLines = 2 /\ Len(logsResult.logs) = 1
    /\ ~Includes(logsResult.logs[1].fullLine, filter.text)

\* ------------------------------------------------- claims: parseLogLine
Parsed == parsePc = "done"
ApiOf(l) == FirstMatch(ApiAt, l)

\* C11: a line that matches the primary API pattern with a parenthetical detail
\* yields an entry whose message starts with
\* "<Operation> failed: <detail> (<statusCode>)".
C11_FailedMessage ==
    (Parsed /\ ApiOf(rawLine).ok /\ ApiOf(rawLine).g[4] # Undefined)
    => StartsAt(entry.message, 1,
                FailedMessage(ApiOf(rawLine).g[2], ApiOf(rawLine).g[4][1],
                              DigitsValue(ApiOf(rawLine).g[3])))

IamOf(l) == FirstMatch(IamDenialAt, l)
ResourceOf(l) == LastResourceFrom(l, 1, NoMatch)
PhraseAction(l) == toLowerCase(IamOf(l).g[1]) \o ":" \o IamOf(l).g[3]

\* C12 as stated: a line that contains the IAM-denial phrase yields an entry with
\* isIamDenial and isError true, the phrase's principal, and iamAction
\* "<svc>:<op>" of that phrase, whatever else the line contains.
C12_ActionFromPhrase ==
    (Parsed /\ IamOf(rawLine).ok)
    => /\ entry.isIamDenial /\ entry.isError
       /\ entry.iamPrincipal = Defined(IamOf(rawLine).g[2])
       /\ entry.iamAction = Defined(PhraseAction(rawLine))

\* C12 amended: isIamDenial, isError and the principal are as stated; iamAction
\* is "<svc in lower case>:<op>" of the phrase unless the line also contains an
\* "Action '<a>' for '<r>'" phrase, and then it is the <a> of the last of these.
C12_ActionUnlessResource ==
    (Parsed /\ IamOf(rawLine).ok)
    => /\ entry.isIamDenial /\ entry.isError
       /\ entry.iamPrincipal = Defined(IamOf(rawLine).g[2])
       /\ entry.iamAction = IF ResourceOf(rawLine).ok
                            THEN Defined(ResourceOf(rawLine).g[1])
                            ELSE Defined(PhraseAction(rawLine))

\* A denial line that also names an action and its resource.
C12_Witness ==
    /\ Parsed /\ IamOf(rawLine).ok /\ ResourceOf(rawLine).ok
    /\ entry.isIamDenial
    /\ entry.iamAction # Defined(PhraseAction(rawLine))

HttpOf(l) == FirstMatch(HttpAt, l)
ReasonOf(l) == FirstMatch(ReasonAt, l)

\* C13: a line that does not match the primary API pattern but matches a fallback
\* shape, HTTP method + path + 3-digit status or 3-digit status + textual reason,
\* yields an entry with isApiCall true and statusCode that 3-digit status.
C13_FallbackStatus ==
    (Parsed /\ ~ApiOf(rawLine).ok)
    => /\ HttpOf(rawLine).ok
          => /\ entry.isApiCall
             /\ entry.statusCode = Defined(DigitsValue(HttpOf(rawLine).g[2]))
       /\ (~HttpOf(rawLine).ok /\ ReasonOf(rawLine).ok)
          => /\ entry.isApiCall
             /\ entry.statusCode = Defined(DigitsValue(ReasonOf(rawLine).g[1]))

\* C14: isError is true exactly when the level is ERROR or FATAL, or the parsed
\* statusCode is at least 400, or the IAM-denial pattern matched; a line that
\* matches the primary API pattern with a status of at least 400 has isError and
\* isApiCall true whatever its level.
C14_IsErrorExactly ==
    Parsed
    => /\ entry.isError <=> \/ entry.level \in {Defined("ERROR"), Defined("FATAL")}
                            \/ entry.statusCode # Undefined /\ entry.statusCode[1] >= 400
                            \/ entry.isIamDenial
       /\ entry.isIamDenial <=> IamOf(rawLine).ok
       /\ (ApiOf(rawLine).ok /\ DigitsValue(ApiOf(rawLine).g[3]) >= 400)
          => entry.isError /\ entry.isApiCall

\* An INFO line that is an error only by its status.
C14_Witness ==
    /\ Parsed /\ entry.level = Defined("INFO") /\ ~entry.isIamDenial
    /\ ApiOf(rawLine).ok /\ entry.statusCode = Defined(404)
    /\ entry.isError /\ entry.isApiCall

\* ------------------- claims: groupLogsByError and analyzeApiCalls
GroupsDone == groupPc = "done"
StatsDone == statsPc = "done"
Places(g) == {<<k, j>> : k \in 1..Len(g), j \in 1..MaxLogs + 1}
MemberAt(g, pl) == pl[2] <= Len(g[pl[1]].members)
PlacesOf(g, i) == {pl \in Places(g) : MemberAt(g, pl) /\ g[pl[1]].members[pl[2]] = i}

\* C15: groupLogsByError partitions exactly the entries with isError or isWarning
\* by group key: each of them is in exactly one group, no other entry is in any
\* group, the entries of a group keep their input order, and the groups come in
\* the order of the first input entry of each key.
C15_Partition ==
    GroupsDone
    => /\ \A i \in 1..Len(logs) :
            Cardinality(PlacesOf(groups, i))
              = IF logs[i].isError \/ logs[i].isWarning THEN 1 ELSE 0
       /\ \A k \in 1..Len(groups) :
            /\ Len(groups[k].members) >= 1
            /\ \A j \in 1..Len(groups[k].members) :
                 /\ groups[k].members[j] \in 1..Len(logs)
                 /\ GroupKey(logs[groups[k].members[j]]) = groups[k].key
                 /\ j > 1 => groups[k].members[j - 1] < groups[k].members[j]
            /\ \A k2 \in 1..Len(groups) :
                 k < k2 => /\ groups[k].key # groups[k2].key
                           /\ groups[k].members[1] < groups[k2].members[1]

\* Two groups whose entries interleave in the input: the first and third entry
\* share a key, the second has another.
C15_Witness ==
    /\ GroupsDone /\ Len(logs) = 3 /\ Len(groups) = 2
    /\ groups[1].members = <<1, 3>> /\ groups[2].members = <<2>>
    /\ logs[1] # logs[3]

SameGroup(i, j) ==
    \E k \in 1..Len(groups) :
        \E a, b \in 1..Len(groups[k].members) :
            groups[k].members[a] = i /\ groups[k].members[b] = j
DifferOnlyIn(V, m1, m2) == \E x, y \in V : m1 = Embed(x) /\ m2 = Embed(y)

\* C16: two error entries that are not keyed as API calls and whose messages
\* differ only in an embedded UUID or hexadecimal identifier, or only in an
\* embedded ISO timestamp, get the same group key.
C16_VolatileSameKey ==
    GroupsDone
    => \A i, j \in 1..Len(logs) :
         ( /\ logs[i].isError /\ logs[j].isError
           /\ ~KeyedAsApiCall(logs[i]) /\ ~KeyedAsApiCall(logs[j])
           /\ \/ DifferOnlyIn(IdTexts, logs[i].message, logs[j].message)
              \/ DifferOnlyIn(StampTexts, logs[i].message, logs[j].message) )
         => SameGroup(i, j)

Positions(ls) == [i \in 1..Len(ls) |-> i]
Calls == {i \in 1..Len(logs) : logs[i].isApiCall}
HasStatus(i) == logs[i].statusCode # Undefined
HasNonZeroStatus(i) == HasStatus(i) /\ logs[i].statusCode[1] # 0
FailedCall(i) == logs[i].isApiCall /\ HasStatus(i) /\ logs[i].statusCode[1] >= 400
SuccessfulCall(i) == logs[i].isApiCall /\ HasStatus(i) /\ logs[i].statusCode[1] < 400
RECURSIVE SumOver(_, _)
SumOver(f, S) ==
    IF S = {} THEN 0 ELSE LET x == CHOOSE x \in S : TRUE IN f[x] + SumOver(f, S \ {x})

\* C17 as stated: totalCalls counts the entries with isApiCall; a call is failed
\* iff its statusCode is >= 400 and successful iff it is < 400; successful +
\* failed <= total, with equality exactly when every API call has a status code;
\* failedCallDetails is the failed calls in input order; the per-status counts
\* sum to successful + failed.
C17_Tally ==
    StatsDone
    => /\ stats.totalCalls = Cardinality(Calls)
       /\ stats.failedCalls = Cardinality({i \in Calls : FailedCall(i)})
       /\ stats.successfulCalls = Cardinality({i \in Calls : SuccessfulCall(i)})
       /\ stats.successfulCalls + stats.failedCalls <= stats.totalCalls
       /\ stats.successfulCalls + stats.failedCalls = stats.totalCalls
            <=> \A i \in Calls : HasStatus(i)
       /\ stats.failedCallDetails = SelectSeq(Positions(logs), FailedCall)
       /\ SumOver(stats.callsByStatus, DOMAIN stats.callsByStatus)
            = stats.successfulCalls + stats.failedCalls

\* C17 amended: as stated, except that a call is successful iff its statusCode
\* is from 1 to 399, and equality holds exactly when every API call has a
\* status code other than 0: a call with statusCode 0 is in neither tally.
C17_TallyNonZero ==
    StatsDone
    => /\ stats.totalCalls = Cardinality(Calls)
       /\ stats.failedCalls = Cardinality({i \in Calls : FailedCall(i)})
       /\ stats.successfulCalls
            = Cardinality({i \in Calls : SuccessfulCall(i) /\ HasNonZeroStatus(i)})
       /\ stats.successfulCalls + stats.failedCalls <= stats.totalCalls
       /\ stats.successfulCalls + stats.failedCalls = stats.totalCalls
            <=> \A i \in Calls : HasNonZeroStatus(i)
       /\ stats.failedCallDetails = SelectSeq(Positions(logs), FailedCall)
       /\ SumOver(stats.callsByStatus, DOMAIN stats.callsByStatus)
            = stats.successfulCalls + stats.failedCalls

\* A failed call, a successful call and a call without a status code.
C17_Witness ==
    /\ StatsDone /\ stats.totalCalls = 3
    /\ stats.successfulCalls = 1 /\ stats.failedCalls = 1
    /\ stats.failedCallDetails = <<2>>
    /\ \E i \in Calls : ~HasStatus(i)

\* ------------------------------------------- claims: iam-policy.logic
Enriched == iamPc \notin {"off", "enrich"}
Deduplicated == iamPc \notin {"off", "enrich", "deduplicate"}
Present(v) == v # Undefined /\ v # Defined("")
Apart(log, denial) == TimeDiff(DateOf(log.timestamp[1]), DateOf(denial.timestamp[1]))
Candidates(denial) ==
    {j \in 1..Len(allLogs) :
        /\ Present(allLogs[j].timestamp) /\ Present(allLogs[j].iamResource)
        /\ allLogs[j].iamAction = denial.iamAction
        /\ Apart(allLogs[j], denial) <= 5000}

\* C18: enrichWithResourceData returns one copy per denial, in order; for a
\* denial with a timestamp and an iamAction, if some entry of allLogs has the
\* same iamAction, a non-empty iamResource and a timestamp at most 5000 ms away,
\* the copy's iamResource is that of the first such entry in allLogs order;
\* otherwise the copy equals the denial.
C18_FirstNearbyResource ==
    Enriched
    => /\ Len(enriched) = Len(denials)
       /\ \A i \in 1..Len(denials) :
            IF /\ Present(denials[i].timestamp) /\ Present(denials[i].iamAction)
               /\ Candidates(denials[i]) # {}
            THEN enriched[i] =
                   [denials[i] EXCEPT
                      !.iamResource = allLogs[Min(Candidates(denials[i]))].iamResource]
            ELSE enriched[i] = denials[i]

\* A denial with two nearby resource logs, the first of them the farther one.
C18_Witness ==
    /\ Enriched /\ Len(denials) >= 1 /\ Len(allLogs) = 2
    /\ Candidates(denials[1]) = {1, 2}
    /\ Apart(allLogs[1], denials[1]) > Apart(allLogs[2], denials[1])
    /\ allLogs[1].iamResource # allLogs[2].iamResource
    /\ denials[1].iamResource = Undefined
    /\ enriched[1].iamResource = allLogs[1].iamResource

DedupedAgain == iamPc \in {"generatePerPrincipal", "done"}
Eligible(denial) == Present(denial.iamPrincipal) /\ Present(denial.iamAction)
ResourceOrStar(denial) == IF Present(denial.iamResource) THEN denial.iamResource[1] ELSE "*"
KeyOf(denial) ==
    denial.iamPrincipal[1] \o "|" \o denial.iamAction[1] \o "|" \o ResourceOrStar(denial)
Occurrences(key) == {i \in 1..Len(enriched) : Eligible(enriched[i]) /\ KeyOf(enriched[i]) = key}
KeysOf(map) == {map[k].key : k \in 1..Len(map)}

\* C19: deduplicatePermissions returns exactly one permission per distinct key
\* "<principal>|<action>|<resource>" among the denials that have a principal
\* and an action, the resource defaulting to "*", with the values of the first
\* occurrence of the key; other denials contribute nothing; a second call on
\* the same list yields a map of the same size and the same key set.
C19_OnePerKey ==
    /\ Deduplicated
       => /\ KeysOf(permissions)
               = {KeyOf(enriched[i]) : i \in {j \in 1..Len(enriched) : Eligible(enriched[j])}}
          /\ Cardinality(KeysOf(permissions)) = Len(permissions)
          /\ \A k \in 1..Len(permissions) :
               LET first == enriched[Min(Occurrences(permissions[k].key))]
               IN permissions[k].value = [principal |-> first.iamPrincipal[1],
                                          action |-> first.iamAction[1],
                                          resource |-> ResourceOrStar(first)]
    /\ DedupedAgain
       => /\ Len(permissionsAgain) = Len(permissions)
          /\ KeysOf(permissionsAgain) = KeysOf(permissions)

\* Two denials with one key, without a resource, called twice.
C19_Witness ==
    /\ DedupedAgain /\ Len(enriched) = 2
    /\ Eligible(enriched[1]) /\ Eligible(enriched[2])
    /\ Len(permissions) = 1 /\ permissions[1].value.resource = "*"
    /\ Len(permissionsAgain) = 1

Generated == iamPc = "done"
NoPrincipalIn(p) == \A i \in 1..Len(p.Statement) : "Principal" \notin DOMAIN p.Statement[i]

\* C20: for every non-empty permission map, no statement of the policy that
\* generateIamPolicy returns contains a Principal key, also when the
\* permissions come from several principals.
C20_NoPrincipalKey ==
    (Generated /\ Len(permissions) >= 1)
    => NoPrincipalIn(policy) /\ NoPrincipalIn(principalPolicy)

PolicyMade == iamPc \in {"deduplicateAgain", "generatePerPrincipal", "done"}
ResourceAt(k) == permissions[k].value.resource
FirstSeen == {k \in 1..Len(permissions) : \A j \in 1..(k - 1) : ResourceAt(j) # ResourceAt(k)}
NthFirstSeen(i) == CHOOSE k \in FirstSeen : Cardinality({j \in FirstSeen : j <= k}) = i
ActionsOn(resource) ==
    {permissions[k].value.action : k \in {j \in 1..Len(permissions) : ResourceAt(j) = resource}}
Grants(action, resource) ==
    \E i \in 1..Len(policy.Statement) :
        /\ policy.Statement[i].Resource = resource
        /\ \E a \in 1..Len(policy.Statement[i].Action) : policy.Statement[i].Action[a] = action

\* C21: generateIamPolicy emits exactly one statement per distinct resource of
\* the permission map, in first-seen resource order, with Sid
\* GeneratedStatement1, GeneratedStatement2, ... and Effect Allow; the Action
\* list of a statement is strictly increasing (sorted, without duplicates) and
\* holds exactly the actions of the permissions on its resource, whatever their
\* principals; so the policy grants (action, resource) iff a permission has it.
C21_OneStatementPerResource ==
    PolicyMade
    => /\ policy.Version = "2012-10-17"
       /\ Len(policy.Statement) = Cardinality(FirstSeen)
       /\ \A i \in 1..Len(policy.Statement) :
            LET st == policy.Statement[i]
            IN /\ st.Resource = ResourceAt(NthFirstSeen(i))
               /\ st.Sid = "GeneratedStatement" \o ToString(i)
               /\ st.Effect = "Allow"
               /\ \A a, b \in 1..Len(st.Action) : a < b => StrLess(st.Action[a], st.Action[b])
               /\ {st.Action[a] : a \in 1..Len(st.Action)} = ActionsOn(st.Resource)
       /\ \A k \in 1..Len(permissions) :
            Grants(permissions[k].value.action, ResourceAt(k))
       /\ \A i \in 1..Len(policy.Statement) : \A a \in 1..Len(policy.Statement[i].Action) :
            \E k \in 1..Len(permissions) :
                /\ permissions[k].value.action = policy.Statement[i].Action[a]
                /\ ResourceAt(k) = policy.Statement[i].Resource

\* Two permissions on one resource whose actions are stored out of order, in
\* one statement that lists them sorted.
C21_Witness ==
    /\ PolicyMade /\ Len(permissions) = 2
    /\ ResourceAt(1) = ResourceAt(2)
    /\ StrLess(permissions[2].value.action, permissions[1].value.action)
    /\ Len(policy.Statement) = 1
    /\ policy.Statement[1].Action = <<permissions[2].value.action, permissions[1].value.action>>

\* C26: the resolved CommandResult has no error only if the child closed with
\* exit code 0, the timeout timer did not fire and no stream exceeded maxBuffer;
\* and a run that closes with exit code 0 without a timeout, an overflow or an
\* 'error' event of the child resolves with no error.
C26_NoErrorIffClean ==
    Resolved
    => /\ result.error = NoError
          => /\ result.exitCode = Code(0)
             /\ ~timedOut /\ timer # "fired"
             /\ ~StdoutOver /\ ~StderrOver /\ ~bufferExceeded
       /\ (/\ result.exitCode = Code(0) /\ ~timedOut /\ ~StdoutOver /\ ~StderrOver
           /\ child # "failed" /\ ~errAfterTimer)
          => result.error = NoError

\* A run that wrote to both streams within maxBuffer and closed with code 0.
C26_Witness ==
    /\ Resolved /\ result.error = NoError /\ result.exitCode = Code(0)
    /\ result.stdout # <<>> /\ result.stderr # <<>> /\ timer = "cleared"

OwnResource(log) ==
    /\ log.isIamDenial /\ Present(log.iamPrincipal) /\ Present(log.iamAction)
    /\ Present(log.iamResource)

\* C27: in the analyze-policies pipeline, for every IAM-denial entry that has a
\* principal, an action A and its own resource R, the generated policy has a
\* statement that allows A on R.
C27_ObservedResourceKept ==
    PolicyMade
    => \A i \in 1..Len(allLogs) :
          OwnResource(allLogs[i]) => Grants(allLogs[i].iamAction[1], allLogs[i].iamResource[1])

TripleOf(denial) == <<denial.iamPrincipal[1], denial.iamAction[1], ResourceOrStar(denial)>>
ValuesOf(map) ==
    {<<map[k].value.principal, map[k].value.action, map[k].value.resource>> :
        k \in 1..Len(map)}

\* C28: two denials whose (principal, action, resource) triples differ never get
\* the same key, so the triple of every denial with a principal and an action
\* is among the permissions of the Map.
C28_KeyInjective ==
    Deduplicated
    => /\ \A i, j \in 1..Len(enriched) :
            (/\ Eligible(enriched[i]) /\ Eligible(enriched[j])
             /\ TripleOf(enriched[i]) # TripleOf(enriched[j]))
            => KeyOf(enriched[i]) # KeyOf(enriched[j])
       /\ \A i \in 1..Len(enriched) :
            Eligible(enriched[i]) => TripleOf(enriched[i]) \in ValuesOf(permissions)

\* ------------------------------------------------ claims: docker.client
\* The names under which a container counts as the LocalStack container.
IsLocalStack(c) ==
    \E k \in 1..Len(OrEmpty(c.Names)) :
        OrEmpty(c.Names)[k] \in {Defined("localstack-main"), Defined("/localstack-main")}
LocalStackAt == {k \in 1..Len(OrEmpty(running)) : IsLocalStack(OrEmpty(running)[k])}
ListReturned == findPc = "done" /\ found # RejectedWith(DockerDownMessage)

\* C22: once docker has returned the running containers, findLocalStackContainer
\* resolves with the id of the first of them that has a name equal to
\* "localstack-main" after one leading "/" is stripped, and rejects with the
\* "Could not find" error when no container has such a name.
C22_FirstNamedContainer ==
    ListReturned =>
        IF LocalStackAt # {}
        THEN found = ResolvedWith(OrEmpty(running)[Min(LocalStackAt)].Id)
        ELSE found = RejectedWith(NotFoundMessage)
\* A list whose second container is the first match, after one with "//".
C22_Witness ==
    /\ ListReturned /\ Len(OrEmpty(running)) = 2
    /\ OrEmpty(running)[1].Id = "dbl" /\ found = ResolvedWith("alias")
C22_WitnessNone ==
    /\ ListReturned /\ Len(OrEmpty(running)) = 2 /\ found = RejectedWith(NotFoundMessage)

ExecSettled == execPc \in {"resolved", "rejected"}
\* C23: executeInContainer calls exec.inspect only after the stream has emitted
\* 'end', and once; a call that resolves, with whatever exit code, resolves
\* after 'end' with the trimmed stdout and stderr collected up to it; when the
\* stream emits 'error' first, exec.inspect is not called and the call can only
\* reject with that error.
C23_InspectAfterEnd ==
    /\ Len(inspectCalls) <= 1
    /\ \A k \in 1..Len(inspectCalls) : inspectCalls[k] # <<>> /\ Head(inspectCalls[k]) = "end"
    /\ execPc \in {"inspecting", "resolved"} => Len(inspectCalls) = 1
    /\ execResult = RejectedWith(StreamErrorMessage) =>
            inspectCalls = <<>> /\ Head(streamEvents) = "error"
    /\ streamEvents # <<>> /\ Head(streamEvents) = "error" =>
            /\ inspectCalls = <<>>
            /\ execPc = "streaming" \/ execResult = RejectedWith(StreamErrorMessage)
    /\ execPc = "resolved" =>
            /\ Head(streamEvents) = "end"
            /\ execResult.value.stdout = trimText(ConcatChunks(stdoutChunks))
            /\ execResult.value.stderr = trimText(ConcatChunks(stderrChunks))
\* Output on both streams, then 'end', then a late 'error', then the result.
C23_Witness ==
    /\ execPc = "resolved" /\ streamEvents = <<"end", "error">>
    /\ execResult.value.stdout = "ok" /\ execResult.value.stderr = "usage: aws"
    /\ execResult.value.exitCode = Num(2)

\* C24: the exitCode of a resolved call is an integer: the ExitCode that
\* exec.inspect reported, or 1 when it is null or missing or when exec.inspect
\* resolved with nothing.
C24_ExitCodeInteger ==
    execPc = "resolved" =>
        /\ execResult.value.exitCode.type = "number"
        /\ execResult.value.exitCode =
              IF inspect[1].type = "object" /\ inspect[1].ExitCode.type = "number"
              THEN inspect[1].ExitCode ELSE Num(1)

\* C25: a call of executeInContainer whose stream is being read always settles:
\* a timeout tears the exec down when the command does not end.
C25_ExecSettles == (execPc = "streaming") ~> ExecSettled

\* --------------------------------------- claims: localstack-aws-client
ShellMetacharacters == {";", "|", "&", Backtick, ">", "<"}
HasMetacharacter(s) ==
    \/ \E i \in 1..Len(s) : At(s, i) \in ShellMetacharacters
    \/ \E i \in 1..Len(s), j \in 1..Len(s) : i < j /\ StartsAt(s, i, "$(") /\ At(s, j) = ")"
IsPrefix(a, b) == Len(a) <= Len(b) /\ SubSeq(b, 1, Len(a)) = a
ExecCreated == awsCmd # Undefined

\* C29: localstack-aws-client gives a command to executeInContainer only after the
\* preflight passed, then the container was found, then the sanitizer accepted
\* the command, and never a command with a shell metacharacter; when one of the
\* three fails nothing is executed and the tool returns an error response.
C29_ExecOnlyAfterChecks ==
    /\ IsPrefix(awsSteps, <<"preflight passed", "find", "found", "sanitize passed", "exec",
                            "exec settled">>)
       \/ awsSteps \in {<<"preflight failed">>, <<"preflight passed", "find", "find failed">>,
                        <<"preflight passed", "find", "found", "sanitize failed">>}
    /\ ExecCreated <=> Len(awsSteps) >= 5
    /\ ExecCreated => ~HasMetacharacter(awsCommand) /\ Head(awsCmd[1]) = "awslocal"
    /\ awsPc = "returned" <=> awsResponse # Undefined
    /\ awsPc = "returned" /\ ~ExecCreated => awsResponse[1].mark = "error"
\* A command with quotes was split and executed; one with a pipe was refused.
C29_Witness ==
    /\ awsPc = "returned"
    /\ awsCmd = Defined(<<"awslocal", "sns", "publish", "--message", "a  b", "--topic-arn", "t">>)
    /\ awsResponse[1].mark = "none"
C29_WitnessRefused ==
    /\ awsPc = "returned" /\ awsCommand = "s3 ls | grep bucket" /\ ~ExecCreated
    /\ awsResponse = Defined(ErrorResponse("Execution Error",
                                 "Command contains forbidden pattern: \\|"))

\* ------------------------------------------- claims: localstack-deployer
\* The commands of a run, in the order the claim gives them.
StepsOf(type, action) ==
    IF action = "destroy" THEN <<"destroy">>
    ELSE IF type = "terraform" THEN <<"init", "apply", "output">> ELSE <<"bootstrap", "deploy">>
EventTypes == {deployEvents[k].type : k \in 1..Len(deployEvents)}
ErroredAt == {k \in 1..Len(deployResults) : deployResults[k].res.error # Undefined}
DeployReturned == deployPc = "returned"
\* The commands run in order, each after the one before it returned without an
\* error.
StepsInOrder ==
    /\ IsPrefix(deployCommands, StepsOf(projectType, deployAction))
    /\ \A k \in 1..Len(deployResults) : deployResults[k].step = deployCommands[k]
    /\ Len(deployResults) \in {Len(deployCommands), Len(deployCommands) - 1}
    /\ \A k \in ErroredAt : k = Len(deployCommands)
SuccessIffClean ==
    /\ ~({"error", "success"} \subseteq EventTypes)
    /\ DeployReturned =>
            ("success" \in EventTypes <=>
                \A k \in ErroredAt : deployResults[k].step = "output")

\* C30 as stated: every command that returns an error, tflocal output among
\* them, ends the run with an error event.
C30_EveryErrorReported ==
    /\ StepsInOrder /\ SuccessIffClean
    /\ ErroredAt # {} => "error" \in EventTypes

\* C30: the commands of a deploy or destroy run in order, each only after the
\* one before it returned without an error; an error of init, bootstrap, apply,
\* deploy or destroy ends the run with an error event, last in the list, and
\* starts no further command; an error of tflocal output is not reported; a
\* returned run has a success event iff none of the commands other than tflocal
\* output returned an error, and no list has both an error and a success event.
C30_DeploySteps ==
    /\ StepsInOrder /\ SuccessIffClean
    /\ \A k \in ErroredAt :
            deployResults[k].step # "output" =>
                /\ DeployReturned
                /\ deployEvents[Len(deployEvents)].type = "error"
                /\ deployEvents[Len(deployEvents)].step = deployResults[k].step
    /\ "error" \in EventTypes => ErroredAt # {}
\* tflocal apply failed after a clean init: no output command, no success.
C30_Witness ==
    /\ DeployReturned /\ deployCommands = <<"init", "apply">>
    /\ ErroredAt = {2} /\ "warning" \in EventTypes
    /\ deployEvents[Len(deployEvents)] =
            ErrorEvent("apply", "Error during " \o Backtick \o "tflocal apply" \o Backtick)
C30_WitnessOutputError ==
    /\ DeployReturned /\ deployCommands = <<"init", "apply", "output">>
    /\ ErroredAt = {3} /\ "success" \in EventTypes

====
